---- MODULE Spec2Model ----
(***************************************************************************)
(* Model of jdb's inferior-control core: Inferior (breakpoint patching),   *)
(* Process (the controller state machine) and Debugger (the command        *)
(* dispatcher), together with the part of the kernel they talk to          *)
(* (fork, waitpid, ptrace peek/poke/cont/detach, kill).                    *)
(*                                                                         *)
(* Option<T> is modelled as a sequence of length 0 (None) or 1 (Some).     *)
(* A machine word is the little-endian sequence of its WORD_BYTES bytes.   *)
(***************************************************************************)
EXTENDS Integers, Sequences, FiniteSets, TLC

VARIABLES
    state,            \* Process.state
    target_process,   \* Process.target_process : Option<Inferior>
    registers,        \* Process.registers : Option<RegisterSnapshot>
    breakpoint_sites, \* Process.breakpoint_sites : Vec<BreakpointSite>
    logging_thread,   \* Process.logging_thread : Option<JoinHandle>
    NEXT_ID,          \* breakpoint_site.rs NEXT_ID
    debugging,        \* Debugger.debugging
    os,               \* kernel: pid -> process status
    mem,              \* kernel: text memory of the most recently forked tracee
    rip,              \* kernel: instruction pointer of that tracee
    workers,          \* reader worker threads still running (by the pid they serve)
    next_pid,         \* kernel: pid the next fork returns
    session,          \* "open" | "exited" (main loop left) | "panicked"
    last,             \* the last call made: what it was, its result, its syscalls
    ghost,            \* history: what the user and the tracee looked like earlier
    threads,          \* threads calling BreakpointSite::new on their own
    history,          \* CommandHistory.history : Vec<String>
    history_file,     \* the file system at CommandHistory.history_file
    reader,           \* a read_inferior_logging thread and what it talks to
    tui,              \* Tui.state : TuiState
    inferior_output   \* Process.inferior_output : Vec<String>

vars == <<state, target_process, registers, breakpoint_sites, logging_thread,
          NEXT_ID, debugging, os, mem, rip, workers, next_pid, session, last, ghost,
          threads, history, history_file, reader, tui, inferior_output>>

----------------------------------------------------------------------------
(* Bounds *)

MaxId == 1        \* breakpoint ids handed out by next_id
MaxLaunch == 2    \* processes forked by launch_executable
MaxAddr == 1      \* the user types addresses 0..MaxAddr
MaxSiteId == 2    \* ids handed out while only breakpoint commands are issued
NumThreads == 2   \* threads racing on BreakpointSite::new
MaxAdds == 3      \* calls of CommandHistory::add
MaxEntered == 2   \* entries in the history of a debugger session
MaxIssued == 4    \* ids handed out to the racing threads

(* Program constants *)

INTERRUPT_INSTRUCTION == 204   \* 0xCC
WORD_BYTES == 8                \* a ptrace peek/poke moves one c_long

----------------------------------------------------------------------------
(* The tracee's address space.  Bytes 0..MemTop are mapped; a word peek at *)
(* address a touches a..a+WORD_BYTES-1, so the last user address straddles *)
(* the end of the mapping and cannot be read.                              *)

Addrs == 0..MaxAddr
MemTop == MaxAddr + WORD_BYTES - 2
Mapped == 0..MemTop
EntryRip == MemTop
Rips == 0..(MaxAddr + 1) \cup {EntryRip}

\* The image exec loads; no byte of it is an int3.
OrigMem == [a \in Mapped |-> ((a * 37 + 85) % 200)]

Pids == 1..MaxLaunch
ProcessStates == {"Unknown", "Stopped", "Running", "Exited", "Terminated"}

None == <<>>
Some(x) == <<x>>
IsSome(o) == Len(o) = 1
Unwrap(o) == o[1]

EmptyMap == [k \in {} |-> 0]
MapInsert(m, k, v) == [x \in DOMAIN m \cup {k} |-> IF x = k THEN v ELSE m[x]]
MapRemove(m, k) == [x \in DOMAIN m \ {k} |-> m[x]]

----------------------------------------------------------------------------
(* Bit operations on bytes and words *)

RECURSIVE BitOr(_, _)
BitOr(a, b) ==
    IF a = 0 THEN b
    ELSE IF b = 0 THEN a
    ELSE (IF (a % 2 = 1) \/ (b % 2 = 1) THEN 1 ELSE 0) + 2 * BitOr(a \div 2, b \div 2)

\* word & !0xFF
ClearLowByte(word) == [word EXCEPT ![1] = 0]
\* word | b, for b a value that fits one byte
OrLowByte(word, b) == [word EXCEPT ![1] = BitOr(@, b)]
\* (word & 0xff) as u8
LowByte(word) == word[1]

----------------------------------------------------------------------------
(* The world a call runs in: the controller's fields, the kernel, and the  *)
(* log of the syscalls the call has issued so far.                         *)

World ==
    [state |-> state, target_process |-> target_process, registers |-> registers,
     breakpoint_sites |-> breakpoint_sites, logging_thread |-> logging_thread,
     NEXT_ID |-> NEXT_ID, os |-> os, mem |-> mem, rip |-> rip,
     workers |-> workers, next_pid |-> next_pid,
     inferior_output |-> inferior_output, sys |-> <<>>]

Ok(w) == [w |-> w, res |-> "Ok"]
Err(w) == [w |-> w, res |-> "Err"]
Panic(w) == [w |-> w, res |-> "Panic"]

\* F of the value of e, with e evaluated once
Eval(e, F(_)) == CHOOSE y \in {F(x) : x \in {e}} : TRUE

\* the `?` operator: an error (or panic) of e ends the call, else F continues
Then(e, F(_)) ==
    Eval(e, LAMBDA r : IF r.res # "Ok" THEN [w |-> r.w, res |-> r.res] ELSE F(r))

\* one entry of the syscall log: the call, the controller state it was made in
Sys(w, call, pid, ok) ==
    [w EXCEPT !.sys = Append(@, [call |-> call, pid |-> pid, state |-> w.state, ok |-> ok])]

----------------------------------------------------------------------------
(* Kernel *)

\* ptrace requests need the tracee to be in a ptrace-stop
Traced(w, pid) == pid \in Pids /\ w.os[pid] = "stopped"

WordMapped(addr) == \A i \in 0..(WORD_BYTES - 1) : (addr + i) \in Mapped

PeekOk(w, pid, addr) == Traced(w, pid) /\ WordMapped(addr)
PeekWord(w, addr) == [i \in 1..WORD_BYTES |-> w.mem[addr + i - 1]]
PokeOk(w, pid, addr) == Traced(w, pid) /\ WordMapped(addr)
PokeWord(w, addr, word) ==
    [w EXCEPT !.mem = [a \in Mapped |->
        IF a >= addr /\ a < addr + WORD_BYTES THEN word[a - addr + 1] ELSE @[a]]]

----------------------------------------------------------------------------
(* stoppoint/breakpoint_site.rs *)

\* next_id reading the counter without adding to it
next_id_no_add(w) == [id |-> w.NEXT_ID, w |-> w]

\* next_id: NEXT_ID.fetch_add(1), returning the value before the add
next_id(w) == [id |-> w.NEXT_ID, w |-> [w EXCEPT !.NEXT_ID = @ + 1]]

\* BreakpointSite::new
BreakpointSite_new(w, address) ==
    LET n == next_id(w)
    IN [b |-> [id |-> n.id, address |-> address, state |-> "Disabled"], w |-> n.w]

is_enabled(b) == b.state = "Enabled"
enable(b) == [b EXCEPT !.state = "Enabled"]
disable(b) == [b EXCEPT !.state = "Disabled"]

----------------------------------------------------------------------------
(* process/mod.rs: Inferior *)

Inferior(pid) == [pid |-> pid, breakpoint_sites |-> EmptyMap]

ActiveSites(w) == Unwrap(w.target_process).breakpoint_sites

\* enable_breakpoint_site writing the word back without the int3 in it
enable_breakpoint_site_unpatched(w, b) ==
    LET inf == Unwrap(w.target_process)
        addr == b.address
    IN  IF b.id \in DOMAIN inf.breakpoint_sites THEN Ok(w)
        ELSE
          LET w1 == Sys(w, "peek", inf.pid, PeekOk(w, inf.pid, addr))
          IN  IF ~PeekOk(w, inf.pid, addr) THEN Err(w1)
              ELSE
                LET instruction_line == PeekWord(w1, addr)
                    saved_instruction == LowByte(instruction_line)
                    w2 == Sys(w1, "poke", inf.pid, PokeOk(w1, inf.pid, addr))
                IN  IF ~PokeOk(w1, inf.pid, addr) THEN Err(w2)
                    ELSE Ok([PokeWord(w2, addr, instruction_line)
                               EXCEPT !.target_process[1].breakpoint_sites =
                                   MapInsert(@, b.id, saved_instruction)])

enable_breakpoint_site(w, b) ==
    LET inf == Unwrap(w.target_process)
        addr == b.address
    IN  IF b.id \in DOMAIN inf.breakpoint_sites THEN Ok(w)
        ELSE
          LET w1 == Sys(w, "peek", inf.pid, PeekOk(w, inf.pid, addr))
          IN  IF ~PeekOk(w, inf.pid, addr) THEN Err(w1)
              ELSE
                LET instruction_line == PeekWord(w1, addr)
                    saved_instruction == LowByte(instruction_line)
                    new_instruction_line ==
                        OrLowByte(ClearLowByte(instruction_line), INTERRUPT_INSTRUCTION)
                    w2 == Sys(w1, "poke", inf.pid, PokeOk(w1, inf.pid, addr))
                IN  IF ~PokeOk(w1, inf.pid, addr) THEN Err(w2)
                    ELSE Ok([PokeWord(w2, addr, new_instruction_line)
                               EXCEPT !.target_process[1].breakpoint_sites =
                                   MapInsert(@, b.id, saved_instruction)])

disable_breakpoint_site(w, b) ==
    LET inf == Unwrap(w.target_process)
        addr == b.address
    IN  IF b.id \notin DOMAIN inf.breakpoint_sites THEN Ok(w)
        ELSE
          LET saved_instruction == inf.breakpoint_sites[b.id]
              \* self.breakpoint_sites.remove(&id)
              w0 == [w EXCEPT !.target_process[1].breakpoint_sites = MapRemove(@, b.id)]
          IN  IF b.id \notin DOMAIN ActiveSites(w0) THEN Ok(w0)
              ELSE
                LET w1 == Sys(w0, "peek", inf.pid, PeekOk(w0, inf.pid, addr))
                IN  IF ~PeekOk(w0, inf.pid, addr) THEN Err(w1)
                    ELSE
                      LET instruction_line == PeekWord(w1, addr)
                          restored_line ==
                              OrLowByte(ClearLowByte(instruction_line), saved_instruction)
                          w2 == Sys(w1, "poke", inf.pid, PokeOk(w1, inf.pid, addr))
                      IN  IF ~PokeOk(w1, inf.pid, addr) THEN Err(w2)
                          ELSE Ok(PokeWord(w2, addr, restored_line))

----------------------------------------------------------------------------
(* Kernel: processes, signals, waitpid *)

\* a WaitStatus as nix decodes it, or the ECHILD error of waitpid
Status(kind, pid, sig, r) == [kind |-> kind, pid |-> pid, sig |-> sig, rip |-> r]

OtherKinds == {"PtraceEvent", "PtraceSyscall", "Continued", "StillAlive"}

\* the statuses waitpid(pid, None) can return for a tracee on which no ptrace
\* option is set
KernelStatuses(pid) ==
    {Status("Stopped", pid, "SIGTRAP", r) : r \in (1..(MaxAddr + 1)) \cup {EntryRip}}
    \cup {Status("Stopped", pid, "SIGSTOP", 0),
          Status("Exited", pid, "-", 0),
          Status("Signaled", pid, "SIGKILL", 0),
          Status("ECHILD", pid, "-", 0)}

\* every variant of WaitStatus
AllStatuses(pid) ==
    KernelStatuses(pid) \cup {Status(k, pid, "-", 0) : k \in OtherKinds}

\* the tracee stops with SIGTRAP after executing an int3: rip is one past it
HitsInt3(w, r) == (r - 1) \in Mapped /\ w.mem[r - 1] = INTERRUPT_INSTRUCTION

WaitBlocks(w, pid) == pid \in Pids /\ w.os[pid] = "stopped"

WaitCan(w, pid, status) ==
    LET st == IF pid \in Pids THEN w.os[pid] ELSE "none"
    IN  CASE st = "forked" ->
               status = Status("Stopped", pid, "SIGTRAP", EntryRip)
               \/ status.kind = "Exited"
          [] st = "running" ->
               \/ status.kind = "Stopped" /\ status.sig = "SIGTRAP" /\ HitsInt3(w, status.rip)
               \/ status.kind = "Stopped" /\ status.sig = "SIGSTOP"
               \/ status.kind \in {"Exited", "Signaled"}
          [] st = "stop_sent" ->
               \/ status.kind = "Stopped" /\ status.sig = "SIGSTOP"
               \/ status.kind \in {"Exited", "Signaled"}
          [] st = "detached" -> status.kind \in {"Exited", "Signaled"}
          [] st = "killed" -> status.kind = "Signaled"
          [] st \in {"none", "reaped"} -> status.kind = "ECHILD"
          [] OTHER -> FALSE

\* what the kernel has done by the time waitpid returns `status`
KernelWait(w, pid, status) ==
    CASE status.kind = "Stopped" ->
           [w EXCEPT !.os[pid] = "stopped", !.rip = status.rip]
      [] status.kind \in {"Exited", "Signaled"} -> [w EXCEPT !.os[pid] = "reaped"]
      [] OTHER -> w

Infeasible(w) == [w |-> w, res |-> "Infeasible"]
Block(w) == [w |-> w, res |-> "Block"]

\* waitpid(pid, None)
waitpid(w, pid, status) ==
    IF WaitBlocks(w, pid) THEN Block(Sys(w, "waitpid", pid, FALSE))
    ELSE IF ~WaitCan(w, pid, status) THEN Infeasible(w)
    ELSE IF status.kind = "ECHILD" THEN Err(Sys(w, "waitpid", pid, FALSE))
    ELSE Ok(Sys(KernelWait(w, pid, status), "waitpid", pid, TRUE))

Alive(w, pid) == pid \in Pids /\ w.os[pid] \notin {"none", "reaped"}

\* kill(pid, sig)
kill(w, pid, sig) ==
    IF ~Alive(w, pid) THEN Err(Sys(w, sig, pid, FALSE))
    ELSE LET st == w.os[pid]
             st2 == CASE sig = "SIGKILL" -> "killed"
                      [] sig = "SIGSTOP" /\ st \in {"running", "forked"} -> "stop_sent"
                      [] OTHER -> st
         IN Ok(Sys([w EXCEPT !.os[pid] = st2], sig, pid, TRUE))

\* ptrace::cont(pid, None)
ptrace_cont(w, pid) ==
    IF ~Traced(w, pid) THEN Err(Sys(w, "cont", pid, FALSE))
    ELSE Ok(Sys([w EXCEPT !.os[pid] = "running"], "cont", pid, TRUE))

\* ptrace::detach(pid, None)
ptrace_detach(w, pid) ==
    IF ~Traced(w, pid) THEN Err(Sys(w, "detach", pid, FALSE))
    ELSE Ok(Sys([w EXCEPT !.os[pid] = "detached"], "detach", pid, TRUE))

----------------------------------------------------------------------------
(* process/registers.rs *)

\* the stack pointer the kernel reports for a stopped tracee
StackTop == MemTop + 1

\* read_all_registers: the getregset calls are unwrapped, so a tracee that is
\* not in a ptrace-stop panics the caller
read_all_registers(w, pid) ==
    IF ~Traced(w, pid) THEN Panic(Sys(w, "getregset", pid, FALSE))
    ELSE [w |-> Sys(w, "getregset", pid, TRUE), res |-> "Ok",
          snapshot |-> [pid |-> pid, RIP |-> w.rip, RSP |-> StackTop]]

----------------------------------------------------------------------------
(* process/mod.rs: Process *)

pid(w) == IF IsSome(w.target_process) THEN Some(Unwrap(w.target_process).pid) ELSE None

\* wait_classify taking a tracee killed by a signal for one that exited
wait_classify_signaled_as_exited(w, status) ==
    Eval(CASE status.kind = "Exited" -> [w EXCEPT !.state = "Exited"]
           [] status.kind = "Signaled" -> [w EXCEPT !.state = "Exited"]
           [] status.kind = "Stopped" -> [w EXCEPT !.state = "Stopped"]
           [] OTHER -> w,
         LAMBDA w1 :
           IF w1.state = "Stopped"
           THEN Eval(read_all_registers(w1, Unwrap(pid(w1))), LAMBDA r :
                  IF r.res # "Ok" THEN [w |-> r.w, res |-> r.res, ret |-> status]
                  ELSE [w |-> [r.w EXCEPT !.registers = Some(r.snapshot)],
                        res |-> "Ok", ret |-> status])
           ELSE [w |-> w1, res |-> "Ok", ret |-> status])

\* lines 229-244 of wait_on_signal: what it does with the status waitpid returned
wait_classify(w, status) ==
    Eval(CASE status.kind = "Exited" -> [w EXCEPT !.state = "Exited"]
           [] status.kind = "Signaled" -> [w EXCEPT !.state = "Terminated"]
           [] status.kind = "Stopped" -> [w EXCEPT !.state = "Stopped"]
           [] OTHER -> w,
         LAMBDA w1 :
           IF w1.state = "Stopped"
           THEN Eval(read_all_registers(w1, Unwrap(pid(w1))), LAMBDA r :
                  IF r.res # "Ok" THEN [w |-> r.w, res |-> r.res, ret |-> status]
                  ELSE [w |-> [r.w EXCEPT !.registers = Some(r.snapshot)],
                        res |-> "Ok", ret |-> status])
           ELSE [w |-> w1, res |-> "Ok", ret |-> status])

wait_on_signal(w, status) ==
    IF ~IsSome(pid(w)) THEN [w |-> w, res |-> "Panic", ret |-> status]
    ELSE Eval(waitpid(w, Unwrap(pid(w)), status), LAMBDA k :
           IF k.res # "Ok" THEN [w |-> k.w, res |-> k.res, ret |-> status]
           ELSE wait_classify(k.w, status))

\* resume without the check of the controller state
resume_unguarded(w) ==
    IF ~IsSome(pid(w)) THEN Panic(w)
    ELSE Then(ptrace_cont(w, Unwrap(pid(w))), LAMBDA c :
           Ok([c.w EXCEPT !.state = "Running"]))

resume(w) ==
    IF w.state \notin {"Stopped", "Running"} THEN Err(w)
    ELSE IF ~IsSome(pid(w)) THEN Panic(w)
    ELSE Then(ptrace_cont(w, Unwrap(pid(w))), LAMBDA c :
           Ok([c.w EXCEPT !.state = "Running"]))

read_register(w, register) ==
    IF IsSome(w.registers) THEN Some(Unwrap(w.registers)[register]) ELSE None

\* launch_executable, parent side: fork the child and build its Inferior
launch_executable(w, fork_ok) ==
    IF ~fork_ok THEN [w |-> Sys(w, "fork", 0, FALSE), res |-> "Err", inferior |-> None]
    ELSE LET child == w.next_pid
         IN  [w |-> Sys([w EXCEPT !.next_pid = @ + 1, !.os[child] = "forked",
                                  !.mem = OrigMem],
                        "fork", child, TRUE),
              res |-> "Ok", inferior |-> Some(Inferior(child))]

\* the loop of attach over the controller's breakpoints, from index i on
RECURSIVE attach_breakpoints(_, _)
attach_breakpoints(w, i) ==
    IF i > Len(w.breakpoint_sites) THEN Ok(w)
    ELSE LET b == w.breakpoint_sites[i]
         IN  IF is_enabled(b)
             THEN Then(enable_breakpoint_site(w, b), LAMBDA r :
                    attach_breakpoints(r.w, i + 1))
             ELSE attach_breakpoints(w, i + 1)

\* self.inferior_output.clear()
clear(w) == [w EXCEPT !.inferior_output = <<>>]

\* attach returning without waiting for the child's first stop
attach_no_wait(w, fork_ok, status) ==
    Then(launch_executable(clear(w), fork_ok), LAMBDA l :
      Eval([l.w EXCEPT !.workers = @ \cup {Unwrap(l.inferior).pid},
                       !.logging_thread = Some(Unwrap(l.inferior).pid),
                       !.target_process = l.inferior,
                       !.state = "Running"],
           LAMBDA w1 : attach_breakpoints(w1, 1)))

\* attach setting the state to Running before it launches the child
attach_running_first(w, fork_ok, status) ==
    Then(launch_executable([clear(w) EXCEPT !.state = "Running"], fork_ok), LAMBDA l :
      Eval([l.w EXCEPT !.workers = @ \cup {Unwrap(l.inferior).pid},
                       !.logging_thread = Some(Unwrap(l.inferior).pid),
                       !.target_process = l.inferior],
           LAMBDA w1 :
             Then(wait_on_signal(w1, status), LAMBDA r :
               attach_breakpoints(r.w, 1))))

attach(w, fork_ok, status) ==
    Then(launch_executable(clear(w), fork_ok), LAMBDA l :
      Eval([l.w EXCEPT !.workers = @ \cup {Unwrap(l.inferior).pid},
                       !.logging_thread = Some(Unwrap(l.inferior).pid),
                       !.target_process = l.inferior,
                       !.state = "Running"],
           LAMBDA w1 :
             Then(wait_on_signal(w1, status), LAMBDA r :
               attach_breakpoints(r.w, 1))))

\* launch_executable, child side, whose execvp failure ends the process at once
launch_executable_child_exits_zero(pre_ok, exec_ok) ==
    IF ~pre_ok THEN [res |-> "Err", inferior |-> None]
    ELSE IF exec_ok THEN [res |-> "Exec", inferior |-> None]
    ELSE [res |-> "Exit", inferior |-> None]

\* launch_executable, child side: setsid, the dup2s, traceme and the CString
\* conversions leave with `?` when they fail (pre_ok is FALSE); execvp does
\* not return when it succeeds; when it fails its result is dropped and the
\* function returns Ok(None)
launch_executable_child(pre_ok, exec_ok) ==
    IF ~pre_ok THEN [res |-> "Err", inferior |-> None]
    ELSE IF exec_ok THEN [res |-> "Exec", inferior |-> None]
    ELSE [res |-> "Ok", inferior |-> None]

\* attach in the child, a copy of the debugger: `launch_executable(..)?` and
\* the expect on its Option
attach_child(l) ==
    CASE l.res \in {"Exec", "Exit", "Err"} -> l.res
      [] IsSome(l.inferior) -> "Ok"
      [] OTHER -> "Panic"

\* what becomes of the forked child.  A panic unwinds the child's main thread
\* out of main and the process exits with status 101; an Err goes up to main,
\* which records it and carries on with its loop: the child is then a second
\* debugger.
child_course(pre_ok, exec_ok) ==
    LET a == attach_child(launch_executable_child(pre_ok, exec_ok))
    IN  CASE a = "Exec" -> [fate |-> "tracee", code |-> 0, command_loop |-> FALSE]
          [] a = "Panic" -> [fate |-> "exited", code |-> 101, command_loop |-> FALSE]
          [] a = "Exit" -> [fate |-> "exited", code |-> 0, command_loop |-> FALSE]
          [] OTHER -> [fate |-> "debugger", code |-> 0, command_loop |-> TRUE]

\* destroy without the early return for a state other than Running
destroy_unguarded(w, s1, s2) ==
    IF ~IsSome(pid(w)) THEN Panic(w)
    ELSE
      LET p == Unwrap(pid(w))
      IN  Then(kill(w, p, "SIGSTOP"), LAMBDA k1 :
          Then(waitpid(k1.w, p, s1), LAMBDA w1 :
          Then(ptrace_detach(w1.w, p), LAMBDA d :
          Then(kill(d.w, p, "SIGCONT"), LAMBDA k2 :
          Then(kill(k2.w, p, "SIGKILL"), LAMBDA k3 :
          Then(wait_on_signal(k3.w, s2), LAMBDA w2 :
            IF IsSome(w2.w.logging_thread)
            THEN Ok([w2.w EXCEPT !.logging_thread = None,
                                 !.workers = @ \ {Unwrap(w2.w.logging_thread)}])
            ELSE Ok(w2.w)))))))

\* destroy sending SIGCONT before the detach
destroy_cont_first(w, s1, s2) ==
    IF w.state # "Running" THEN Ok(w)
    ELSE IF ~IsSome(pid(w)) THEN Panic(w)
    ELSE
      LET p == Unwrap(pid(w))
      IN  Then(kill(w, p, "SIGSTOP"), LAMBDA k1 :
          Then(waitpid(k1.w, p, s1), LAMBDA w1 :
          Then(kill(w1.w, p, "SIGCONT"), LAMBDA k2 :
          Then(ptrace_detach(k2.w, p), LAMBDA d :
          Then(kill(d.w, p, "SIGKILL"), LAMBDA k3 :
          Then(wait_on_signal(k3.w, s2), LAMBDA w2 :
            IF IsSome(w2.w.logging_thread)
            THEN Ok([w2.w EXCEPT !.logging_thread = None,
                                 !.workers = @ \ {Unwrap(w2.w.logging_thread)}])
            ELSE Ok(w2.w)))))))

destroy(w, s1, s2) ==
    IF w.state # "Running" THEN Ok(w)
    ELSE IF ~IsSome(pid(w)) THEN Panic(w)
    ELSE
      LET p == Unwrap(pid(w))
      IN  Then(kill(w, p, "SIGSTOP"), LAMBDA k1 :
          Then(waitpid(k1.w, p, s1), LAMBDA w1 :
          Then(ptrace_detach(w1.w, p), LAMBDA d :
          Then(kill(d.w, p, "SIGCONT"), LAMBDA k2 :
          Then(kill(k2.w, p, "SIGKILL"), LAMBDA k3 :
          Then(wait_on_signal(k3.w, s2), LAMBDA w2 :
            IF IsSome(w2.w.logging_thread)
            THEN Ok([w2.w EXCEPT !.logging_thread = None,
                                 !.workers = @ \ {Unwrap(w2.w.logging_thread)}])
            ELSE Ok(w2.w)))))))

\* create_breakpoint_site without the check for a record at the same address
create_breakpoint_site_unchecked(w, address) ==
    Eval(BreakpointSite_new(w, address), LAMBDA n :
           [w |-> [n.w EXCEPT !.breakpoint_sites = Append(@, n.b)],
            res |-> "Ok", b |-> Some(n.b)])

create_breakpoint_site(w, address) ==
    IF \E i \in 1..Len(w.breakpoint_sites) : w.breakpoint_sites[i].address = address
    THEN [w |-> w, res |-> "Err", b |-> None]
    ELSE Eval(BreakpointSite_new(w, address), LAMBDA n :
           [w |-> [n.w EXCEPT !.breakpoint_sites = Append(@, n.b)],
            res |-> "Ok", b |-> Some(n.b)])

\* retain keeping nothing at all
retain_none(sites, id) == SelectSeq(sites, LAMBDA x : FALSE)

\* self.breakpoint_sites.retain(|b| b.id() != id)
retain(sites, id) == SelectSeq(sites, LAMBDA x : x.id # id)

\* the loop of Enable over the controller's breakpoints, from index i on
RECURSIVE enable_loop(_, _, _)
enable_loop(w, id, i) ==
    IF i > Len(w.breakpoint_sites) THEN Ok(w)
    ELSE LET b == w.breakpoint_sites[i]
         IN  IF b.id = id
             THEN Then(IF IsSome(w.target_process)
                       THEN enable_breakpoint_site(w, b) ELSE Ok(w),
                       LAMBDA r :
                         Eval([r.w EXCEPT !.breakpoint_sites[i] = enable(@)],
                              LAMBDA w1 : enable_loop(w1, id, i + 1)))
             ELSE enable_loop(w, id, i + 1)

\* the loop of Disable over the controller's breakpoints, from index i on
RECURSIVE disable_loop(_, _, _)
disable_loop(w, id, i) ==
    IF i > Len(w.breakpoint_sites) THEN Ok(w)
    ELSE LET b == w.breakpoint_sites[i]
         IN  IF b.id = id
             THEN Then(IF IsSome(w.target_process)
                       THEN disable_breakpoint_site(w, b) ELSE Ok(w),
                       LAMBDA r :
                         Eval([r.w EXCEPT !.breakpoint_sites[i] = disable(@)],
                              LAMBDA w1 : disable_loop(w1, id, i + 1)))
             ELSE disable_loop(w, id, i + 1)

breakpoint_command(w, command) ==
    CASE command.kind = "Create" ->
           Then(create_breakpoint_site(w, command.arg), LAMBDA c :
             IF IsSome(c.w.target_process)
             THEN enable_breakpoint_site(c.w, Unwrap(c.b))
             ELSE Ok(c.w))
      [] command.kind = "Delete" ->
           LET found == {i \in 1..Len(w.breakpoint_sites) :
                            w.breakpoint_sites[i].id = command.arg}
           IN  IF found = {} THEN Err(w)
               ELSE LET b == w.breakpoint_sites[CHOOSE i \in found :
                                                    \A j \in found : i <= j]
                    IN  Then(IF IsSome(w.target_process)
                             THEN disable_breakpoint_site(w, b) ELSE Ok(w),
                             LAMBDA r :
                               Ok([r.w EXCEPT !.breakpoint_sites =
                                     retain(@, command.arg)]))
      [] command.kind = "Enable" -> enable_loop(w, command.arg, 1)
      [] command.kind = "Disable" -> disable_loop(w, command.arg, 1)

----------------------------------------------------------------------------
(* history.rs: CommandHistory.  A string is the sequence of its characters, *)
(* the file is the sequence of its bytes, and the file system is            *)
(* [dir, file]: whether the directory of the history file exists, and the   *)
(* file's content if the file exists.                                       *)

LF == "\n"

\* what the kernel answers to the open and the two writes of one add
IoOutcomes == {"ok", "open_err", "write_err", "newline_err"}

\* CommandHistory::last_command made to return the oldest entry
last_command_first(h) == IF h = <<>> THEN None ELSE Some(h[1])

\* CommandHistory::last_command
last_command(h) == IF h = <<>> THEN None ELSE Some(h[Len(h)])

FileBytes(fs) == IF IsSome(fs.file) THEN Unwrap(fs.file) ELSE <<>>

\* CommandHistory::add made to record nothing
add_nothing(h, fs, cmd, io) == [history |-> h, fs |-> fs, res |-> "Ok"]

\* CommandHistory::add
add(h, fs, cmd, io) ==
    IF cmd = <<>> THEN [history |-> h, fs |-> fs, res |-> "Ok"]
    ELSE
      LET should_append == IF h = <<>> THEN TRUE ELSE h[Len(h)] # cmd
      IN  IF ~should_append THEN [history |-> h, fs |-> fs, res |-> "Ok"]
          ELSE
            LET h1 == Append(h, cmd)
                \* open(append, create): fails without the directory
                opened == [fs EXCEPT !.file = Some(FileBytes(fs))]
                wrote == [fs EXCEPT !.file = Some(FileBytes(fs) \o cmd)]
                done == [fs EXCEPT !.file = Some(FileBytes(fs) \o cmd \o <<LF>>)]
            IN  CASE ~fs.dir \/ io = "open_err" -> [history |-> h1, fs |-> fs, res |-> "Err"]
                  [] io = "write_err" -> [history |-> h1, fs |-> opened, res |-> "Err"]
                  [] io = "newline_err" -> [history |-> h1, fs |-> wrote, res |-> "Err"]
                  [] OTHER -> [history |-> h1, fs |-> done, res |-> "Ok"]

\* BufRead::lines over bytes[i..], `cur` being the line read so far
RECURSIVE lines(_, _, _)
lines(bytes, i, cur) ==
    IF i > Len(bytes) THEN (IF cur = <<>> THEN <<>> ELSE <<cur>>)
    ELSE IF bytes[i] = LF THEN <<cur>> \o lines(bytes, i + 1, <<>>)
    ELSE lines(bytes, i + 1, Append(cur, bytes[i]))

\* read_history
read_history(fs) ==
    IF IsSome(fs.file)
    THEN SelectSeq(lines(Unwrap(fs.file), 1, <<>>), LAMBDA line : line # <<>>)
    ELSE <<>>

----------------------------------------------------------------------------
(* process/mod.rs: the inferior's output kept by the controller *)

\* receive_inferior_logging: every non-empty line of the chunk is pushed.
\* str::lines splits at LF as BufRead::lines does.
receive_inferior_logging(buf, output) ==
    buf \o SelectSeq(lines(output, 1, <<>>), LAMBDA l : l # <<>>)

\* last_n_log_lines: len.saturating_sub(n) is where the slice starts
last_n_log_lines(buf, n) ==
    LET len == IF Len(buf) >= n THEN Len(buf) - n ELSE 0
    IN  SubSeq(buf, len + 1, Len(buf))

----------------------------------------------------------------------------
(* process/registers.rs and register_info.rs: the snapshot as the user      *)
(* structs the kernel filled, every field the sequence of its bytes (least  *)
(* significant first), and the catalog of registers                         *)

\* the arms of the match in get_value: the register, where its value is read,
\* and how the value is cut out of what is read there
Arm(register, from, at, cut) == [register |-> register, from |-> from, at |-> at, cut |-> cut]

get_value_arms ==
    {Arm("RAX", "user_gp", "rax", "u64"),
     Arm("RDX", "user_gp", "rdx", "u64"),
     Arm("RCX", "user_gp", "rcx", "u64"),
     Arm("RBX", "user_gp", "rbx", "u64"),
     Arm("RSI", "user_gp", "rsi", "u64"),
     Arm("RDI", "user_gp", "rdi", "u64"),
     Arm("RBP", "user_gp", "rbp", "u64"),
     Arm("RSP", "user_gp", "rsp", "u64"), Arm("R8", "user_gp", "r8", "u64"),
     Arm("R9", "user_gp", "r9", "u64"), Arm("R10", "user_gp", "r10", "u64"),
     Arm("R11", "user_gp", "r11", "u64"),
     Arm("R12", "user_gp", "r12", "u64"),
     Arm("R13", "user_gp", "r13", "u64"),
     Arm("R14", "user_gp", "r14", "u64"),
     Arm("R15", "user_gp", "r15", "u64"),
     Arm("RIP", "user_gp", "rip", "u64"),
     Arm("EFLAGS", "user_gp", "eflags", "u64"),
     Arm("CS", "user_gp", "cs", "u64"), Arm("FS", "user_gp", "fs", "u64"),
     Arm("GS", "user_gp", "gs", "u64"), Arm("SS", "user_gp", "ss", "u64"),
     Arm("DS", "user_gp", "ds", "u64"), Arm("ES", "user_gp", "es", "u64"),
     Arm("ORIGRAX", "user_gp", "orig_rax", "u64"),
     Arm("EAX", "user_gp", "rax", "u32"),
     Arm("EDX", "user_gp", "rdx", "u32"),
     Arm("ECX", "user_gp", "rcx", "u32"),
     Arm("EBX", "user_gp", "rbx", "u32"),
     Arm("ESI", "user_gp", "rsi", "u32"),
     Arm("EDI", "user_gp", "rdi", "u32"),
     Arm("EBP", "user_gp", "rbp", "u32"),
     Arm("ESP", "user_gp", "rsp", "u32"), Arm("R8D", "user_gp", "r8", "u32"),
     Arm("R9D", "user_gp", "r9", "u32"),
     Arm("R10D", "user_gp", "r10", "u32"),
     Arm("R11D", "user_gp", "r11", "u32"),
     Arm("R12D", "user_gp", "r12", "u32"),
     Arm("R13D", "user_gp", "r13", "u32"),
     Arm("R14D", "user_gp", "r14", "u32"),
     Arm("R15D", "user_gp", "r15", "u32"),
     Arm("AX", "user_gp", "rax", "u16"), Arm("DX", "user_gp", "rdx", "u16"),
     Arm("CX", "user_gp", "rcx", "u16"), Arm("SI", "user_gp", "rsi", "u16"),
     Arm("DI", "user_gp", "rdi", "u16"), Arm("BP", "user_gp", "rbp", "u16"),
     Arm("SP", "user_gp", "rsp", "u16"), Arm("R8W", "user_gp", "r8", "u16"),
     Arm("R9W", "user_gp", "r9", "u16"),
     Arm("R10W", "user_gp", "r10", "u16"),
     Arm("R11W", "user_gp", "r11", "u16"),
     Arm("R12W", "user_gp", "r12", "u16"),
     Arm("R13W", "user_gp", "r13", "u16"),
     Arm("R14W", "user_gp", "r14", "u16"),
     Arm("R15W", "user_gp", "r15", "u16"),
     Arm("AH", "user_gp", "rax", "high8"),
     Arm("DH", "user_gp", "rdx", "high8"),
     Arm("CH", "user_gp", "rcx", "high8"),
     Arm("BH", "user_gp", "rbx", "high8"),
     Arm("AL", "user_gp", "rax", "low8"),
     Arm("DL", "user_gp", "rdx", "low8"),
     Arm("CL", "user_gp", "rcx", "low8"),
     Arm("BL", "user_gp", "rbx", "low8"),
     Arm("SIL", "user_gp", "rsi", "low8"),
     Arm("DIL", "user_gp", "rdi", "low8"),
     Arm("BPL", "user_gp", "rbp", "low8"),
     Arm("SPL", "user_gp", "rsp", "low8"),
     Arm("R8B", "user_gp", "r8", "low8"),
     Arm("R9B", "user_gp", "r9", "low8"),
     Arm("R10B", "user_gp", "r10", "low8"),
     Arm("R11B", "user_gp", "r11", "low8"),
     Arm("R12B", "user_gp", "r12", "low8"),
     Arm("R13B", "user_gp", "r13", "low8"),
     Arm("R14B", "user_gp", "r14", "low8"),
     Arm("R15B", "user_gp", "r15", "low8"),
     Arm("FCW", "user_fp", "cwd", "u64"),
     Arm("FSW", "user_fp", "swd", "u64"),
     Arm("FTW", "user_fp", "ftw", "u64"),
     Arm("FOP", "user_fp", "fop", "u64"),
     Arm("FIP", "user_fp", "rip", "u64"),
     Arm("FDP", "user_fp", "rdp", "u64"),
     Arm("MXCSR", "user_fp", "mxcsr", "u64"),
     Arm("MXCSR_MASK", "user_fp", "mxcr_mask", "u64"),
     Arm("ST0", "st_space", 0, "long_double"),
     Arm("ST1", "st_space", 1, "long_double"),
     Arm("ST2", "st_space", 2, "long_double"),
     Arm("ST3", "st_space", 3, "long_double"),
     Arm("ST4", "st_space", 4, "long_double"),
     Arm("ST5", "st_space", 5, "long_double"),
     Arm("ST6", "st_space", 6, "long_double"),
     Arm("ST7", "st_space", 7, "long_double"),
     Arm("XMM0", "xmm_space", 0, "xmm"), Arm("XMM1", "xmm_space", 1, "xmm"),
     Arm("XMM2", "xmm_space", 2, "xmm"), Arm("XMM3", "xmm_space", 3, "xmm"),
     Arm("XMM4", "xmm_space", 4, "xmm"), Arm("XMM5", "xmm_space", 5, "xmm"),
     Arm("XMM6", "xmm_space", 6, "xmm"), Arm("XMM7", "xmm_space", 7, "xmm"),
     Arm("XMM8", "xmm_space", 8, "xmm"), Arm("XMM9", "xmm_space", 9, "xmm"),
     Arm("XMM10", "xmm_space", 10, "xmm"),
     Arm("XMM11", "xmm_space", 11, "xmm"),
     Arm("XMM12", "xmm_space", 12, "xmm"),
     Arm("XMM13", "xmm_space", 13, "xmm"),
     Arm("XMM14", "xmm_space", 14, "xmm"),
     Arm("XMM15", "xmm_space", 15, "xmm"),
     Arm("DR0", "debug_regs", 0, "u64"), Arm("DR1", "debug_regs", 1, "u64"),
     Arm("DR2", "debug_regs", 2, "u64"), Arm("DR3", "debug_regs", 3, "u64"),
     Arm("DR4", "debug_regs", 4, "u64"), Arm("DR5", "debug_regs", 5, "u64"),
     Arm("DR6", "debug_regs", 6, "u64"), Arm("DR7", "debug_regs", 7, "u64")}

\* REGISTER_DECLS: the registers declared with each format
Decl(format, declared) == [format |-> format, registers |-> declared]

REGISTER_DECLS ==
    {Decl("Uint64",
          {"RAX", "RDX", "RCX", "RBX", "RSI", "RDI", "RBP", "RSP", "R8",
           "R9", "R10", "R11", "R12", "R13", "R14", "R15", "RIP", "EFLAGS",
           "CS", "FS", "GS", "SS", "DS", "ES", "ORIGRAX", "DR0", "DR1",
           "DR2", "DR3", "DR4", "DR5", "DR6", "DR7"}),
     Decl("Uint32",
          {"EAX", "EDX", "ECX", "EBX", "ESI", "EDI", "EBP", "ESP", "R8D",
           "R9D", "R10D", "R11D", "R12D", "R13D", "R14D", "R15D"}),
     Decl("Uint16",
          {"AX", "DX", "CX", "SI", "DI", "BP", "SP", "R8W", "R9W", "R10W",
           "R11W", "R12W", "R13W", "R14W", "R15W", "FCW", "FSW", "FTW",
           "FOP", "FRIP", "FRDP", "MXCSR", "MXCSR_MASK"}),
     Decl("Uint8",
          {"AH", "DH", "CH", "BH", "AL", "DL", "CL", "BL", "SIL", "DIL",
           "BPL", "SPL", "R8B", "R9B", "R10B", "R11B", "R12B", "R13B",
           "R14B", "R15B"}),
     Decl("LongDouble",
          {"ST0", "ST1", "ST2", "ST3", "ST4", "ST5", "ST6", "ST7"}),
     Decl("Byte64",
          {"MM0", "MM1", "MM2", "MM3", "MM4", "MM5", "MM6", "MM7"}),
     Decl("Byte128",
          {"XMM0", "XMM1", "XMM2", "XMM3", "XMM4", "XMM5", "XMM6", "XMM7",
           "XMM8", "XMM9", "XMM10", "XMM11", "XMM12", "XMM13", "XMM14",
           "XMM15"})}

Catalog == UNION {d.registers : d \in REGISTER_DECLS}

\* RegisterInfo.format of a register of the catalog
format(register) == (CHOOSE d \in REGISTER_DECLS : register \in d.registers).format

\* Register: the variants get_value matches on
Readable == {a.register : a \in get_value_arms}

GpFields == {a.at : a \in {x \in get_value_arms : x.from = "user_gp"}}
FpFields == {a.at : a \in {x \in get_value_arms : x.from = "user_fp"}}

\* size in bytes of the fields of libc::user_fpregs_struct that get_value reads
FpSize(field) ==
    CASE field \in {"cwd", "swd", "ftw", "fop"} -> 2
      [] field \in {"mxcsr", "mxcr_mask"} -> 4
      [] OTHER -> 8

Bytes(seed, n) == [i \in 1..n |-> (seed * 16 + i * 7) % 256]

\* what getregset and read_user give for a stopped tracee
UserRegs(seed) ==
    [pid |-> 1,
     user_gp |-> [f \in GpFields |-> Bytes(seed, 8)],
     user_fp |-> [f \in FpFields |-> Bytes(seed + 1, FpSize(f))],
     st_space |-> [i \in 0..7 |-> Bytes(seed + 2 + i, 16)],
     xmm_space |-> [i \in 0..15 |-> Bytes(seed + 3 + i, 16)],
     debug_regs |-> [i \in 0..7 |-> Bytes(seed + 4 + i, 8)]]

RegisterValue(variant, bytes) == [variant |-> variant, bytes |-> bytes]

\* `as u64`: zero extension to n bytes
ZeroExtend(bytes, n) == bytes \o [i \in 1..(n - Len(bytes)) |-> 0]

\* RegisterSnapshot::get_value
get_value(snap, register) ==
    LET arm == CHOOSE a \in get_value_arms : a.register = register
        read == CASE arm.from = "user_gp" -> snap.user_gp[arm.at]
                  [] arm.from = "user_fp" -> snap.user_fp[arm.at]
                  [] arm.from = "st_space" -> snap.st_space[arm.at]
                  [] arm.from = "xmm_space" -> snap.xmm_space[arm.at]
                  [] OTHER -> snap.debug_regs[arm.at]
    IN  CASE arm.cut = "u64" -> RegisterValue("Uint64", ZeroExtend(read, 8))
          [] arm.cut = "u32" -> RegisterValue("Uint64", ZeroExtend(SubSeq(read, 1, 4), 8))
          [] arm.cut = "u16" -> RegisterValue("Uint64", ZeroExtend(SubSeq(read, 1, 2), 8))
          [] arm.cut = "high8" -> RegisterValue("Uint64", ZeroExtend(<<read[2]>>, 8))
          [] arm.cut = "low8" -> RegisterValue("Uint64", ZeroExtend(<<read[1]>>, 8))
          [] arm.cut = "long_double" -> RegisterValue("LongDouble", SubSeq(read, 1, 10))
          [] OTHER -> RegisterValue("Byte128", read)

\* RegisterSnapshot::set_value: register and value are not used; the result is
\* read_all_registers(self.pid), whose unwraps panic when the tracee is not in
\* a ptrace-stop.  `tracee` is the register file the kernel holds.
set_value(snap, register, value, stopped, tracee) ==
    IF stopped THEN [res |-> "Ok", snapshot |-> Some(tracee)]
    ELSE [res |-> "Panic", snapshot |-> None]

----------------------------------------------------------------------------
(* debugger/mod.rs: Debugger *)

Command(kind, arg) == [kind |-> kind, arg |-> arg]

\* dispatch_command whose Continue does not wait for the tracee
dispatch_command_continue_no_wait(w, dbg, command, fork_ok, s1, s2) ==
    Eval(CASE command.kind = "Run" ->
                Then(attach(w, fork_ok, s1), LAMBDA r :
                  [w |-> r.w, res |-> "Ok", ret |-> "Normal", debugging |-> TRUE])
           [] command.kind = "Continue" ->
                Then(resume(w), LAMBDA r :
                    [w |-> r.w, res |-> "Ok", ret |-> "Normal", debugging |-> dbg])
           [] command.kind = "Quit" ->
                Then(destroy(w, s1, s2), LAMBDA r :
                  [w |-> r.w, res |-> "Ok", ret |-> "Exit", debugging |-> FALSE])
           [] OTHER ->
                Then(breakpoint_command(w, command), LAMBDA r :
                  [w |-> r.w, res |-> "Ok", ret |-> "Normal", debugging |-> dbg]),
         LAMBDA r :
           IF r.res # "Ok"
           THEN [w |-> r.w, res |-> r.res, ret |-> "-", debugging |-> dbg]
           ELSE r)

\* dispatch_command; `dbg` is Debugger.debugging, and fork_ok, s1, s2 are what
\* the kernel answers to the fork and the waits the command makes
dispatch_command(w, dbg, command, fork_ok, s1, s2) ==
    Eval(CASE command.kind = "Run" ->
                Then(attach(w, fork_ok, s1), LAMBDA r :
                  [w |-> r.w, res |-> "Ok", ret |-> "Normal", debugging |-> TRUE])
           [] command.kind = "Continue" ->
                Then(resume(w), LAMBDA r :
                  Then(wait_on_signal(r.w, s1), LAMBDA v :
                    [w |-> v.w, res |-> "Ok", ret |-> "Normal", debugging |-> dbg]))
           [] command.kind = "Quit" ->
                Then(destroy(w, s1, s2), LAMBDA r :
                  [w |-> r.w, res |-> "Ok", ret |-> "Exit", debugging |-> FALSE])
           [] OTHER ->
                Then(breakpoint_command(w, command), LAMBDA r :
                  [w |-> r.w, res |-> "Ok", ret |-> "Normal", debugging |-> dbg]),
         LAMBDA r :
           IF r.res # "Ok"
           THEN [w |-> r.w, res |-> r.res, ret |-> "-", debugging |-> dbg]
           ELSE r)

\* A String is the sequence of its characters.
RUN == <<"r", "u", "n">>
CONT == <<"c">>

Upper == <<"A", "B", "C", "D", "E", "F", "G", "H", "I", "J", "K", "L", "M",
           "N", "O", "P", "Q", "R", "S", "T", "U", "V", "W", "X", "Y", "Z">>
Lower == <<"a", "b", "c", "d", "e", "f", "g", "h", "i", "j", "k", "l", "m",
           "n", "o", "p", "q", "r", "s", "t", "u", "v", "w", "x", "y", "z">>
Digits == <<"0", "1", "2", "3", "4", "5", "6", "7", "8", "9">>

IndexIn(seq, c) == IF \E i \in 1..Len(seq) : seq[i] = c
                   THEN CHOOSE i \in 1..Len(seq) : seq[i] = c
                   ELSE 0

\* str::to_lowercase
to_lowercase(s) ==
    [i \in 1..Len(s) |-> IF IndexIn(Upper, s[i]) # 0 THEN Lower[IndexIn(Upper, s[i])]
                         ELSE s[i]]

IsWhitespace(c) == c \in {" ", "\t"}

\* str::split_whitespace: the maximal runs of non-whitespace characters
RECURSIVE split_whitespace(_, _, _, _)
split_whitespace(s, i, cur, out) ==
    IF i > Len(s) THEN (IF cur = <<>> THEN out ELSE Append(out, cur))
    ELSE IF IsWhitespace(s[i])
         THEN split_whitespace(s, i + 1, <<>>, IF cur = <<>> THEN out ELSE Append(out, cur))
         ELSE split_whitespace(s, i + 1, Append(cur, s[i]), out)

\* the value of a run of decimal digits
RECURSIVE decimal(_, _, _)
decimal(s, i, acc) ==
    IF i > Len(s) THEN acc ELSE decimal(s, i + 1, acc * 10 + (IndexIn(Digits, s[i]) - 1))

\* str::parse::<u64> / str::parse::<i32>: an optional sign ("+", and "-" for the
\* signed type) followed by at least one digit and nothing else.  The lines
\* entered in this model hold one digit, so the value always fits the type.
parse_int(s, signed) ==
    LET neg == signed /\ s # <<>> /\ s[1] = "-"
        body == IF s # <<>> /\ (s[1] = "+" \/ neg) THEN Tail(s) ELSE s
    IN  IF body = <<>>
           \/ \E i \in 1..Len(body) : IndexIn(Digits, body[i]) = 0
        THEN [res |-> "Err", value |-> 0]
        ELSE [res |-> "Ok",
              value |-> IF neg THEN 0 - decimal(body, 1, 0) ELSE decimal(body, 1, 0)]

\* VirtualAddress::try_from(Vec<String>) and StoppointId::try_from(Vec<String>)
arg_try_from(v, signed) ==
    IF Len(v) # 1 THEN [res |-> "Err", value |-> 0] ELSE parse_int(v[1], signed)

\* impl TryFrom<String> for Command
Command_try_from(value) ==
    LET words == split_whitespace(value, 1, <<>>, <<>>)
        cmd == IF words = <<>> THEN <<>> ELSE to_lowercase(words[1])
        args == IF words = <<>> THEN <<>> ELSE Tail(words)
        Parsed(kind, a) == [res |-> a.res, command |-> Command(kind, a.value)]
    IN  CASE cmd \in {RUN, <<"r">>} -> [res |-> "Ok", command |-> Command("Run", 0)]
          [] cmd \in {<<"c", "o", "n", "t", "i", "n", "u", "e">>, CONT} ->
                 [res |-> "Ok", command |-> Command("Continue", 0)]
          [] cmd \in {<<"q", "u", "i", "t">>, <<"q">>} ->
                 [res |-> "Ok", command |-> Command("Quit", 0)]
          [] cmd \in {<<"b", "r", "e", "a", "k">>, <<"b">>} ->
                 Parsed("Create", arg_try_from(args, FALSE))
          [] cmd = <<"d", "e", "l", "e", "t", "e">> ->
                 Parsed("Delete", arg_try_from(args, TRUE))
          [] cmd = <<"e", "n", "a", "b", "l", "e">> ->
                 Parsed("Enable", arg_try_from(args, TRUE))
          [] cmd = <<"d", "i", "s", "a", "b", "l", "e">> ->
                 Parsed("Disable", arg_try_from(args, TRUE))
          [] OTHER -> [res |-> "Err", command |-> Command("-", 0)]

\* the line Debugger::next goes on with: the last command for an empty line
replayed(h, line) == IF line = <<>> /\ h # <<>> THEN Unwrap(last_command(h)) ELSE line

\* Debugger::next on the line entered; `io` is what the file system answers to
\* add, the rest is as for dispatch_command.  steps: what the call did, in order.
Debugger_next(w, dbg, h, fs, line, io, fork_ok, s1, s2) ==
    LET Out(r, a, steps) ==
            [w |-> r.w, res |-> r.res, ret |-> r.ret, debugging |-> r.debugging,
             history |-> a.history, fs |-> a.fs, steps |-> steps]
        Same(res, ret) == [w |-> w, res |-> res, ret |-> ret, debugging |-> dbg]
        Kept == [history |-> h, fs |-> fs, res |-> "Ok"]
    IN  IF line = <<>> /\ h = <<>>
        THEN Out(Same("Ok", "Normal"), Kept, <<>>)
        ELSE Eval(IF line = <<>> THEN Kept ELSE add(h, fs, line, io), LAMBDA a :
               IF a.res # "Ok"
               THEN Out(Same("Err", "-"), a, <<"add">>)
               ELSE Eval(Command_try_from(replayed(h, line)), LAMBDA c :
                      IF c.res # "Ok"
                      THEN Out(Same("Err", "-"), a,
                               IF line = <<>> THEN <<"try_from">>
                               ELSE <<"add", "try_from">>)
                      ELSE Out(dispatch_command(w, dbg, c.command, fork_ok, s1, s2), a,
                               IF line = <<>> THEN <<"try_from", "dispatch_command">>
                               ELSE <<"add", "try_from", "dispatch_command">>)))

----------------------------------------------------------------------------
(* tui/mod.rs: the state of the screens and the keys, and main.rs: what the *)
(* main loop does with the result of a key press                            *)

\* DebuggerState::default().panes, indexed from 0 as in the Vec
Panes == <<"Source", "Locals", "Logs", "Command">>

TuiState_default ==
    [screen_mode |-> "MainDebugger", focus_pane_idx |-> 3,
     command_input |-> <<>>, last_command_response |-> None]

next_index(len, cur_idx, increment) ==
    IF increment THEN (cur_idx + 1) % len
    ELSE IF cur_idx = 0 THEN len - 1 ELSE cur_idx - 1

set_focus(t, pane) == [t EXCEPT !.focus_pane_idx = IndexIn(Panes, pane) - 1]

in_edit_mode(t) == Panes[t.focus_pane_idx + 1] = "Command"

Key(code, ch, alt) == [code |-> code, ch |-> ch, alt |-> alt]

EventResult(t, ret, command) == [tui |-> t, ret |-> ret, command |-> command]

debugger_screen_key_press(t, key) ==
    IF in_edit_mode(t)
    THEN IF key.code = "Char" /\ key.ch = "x" /\ key.alt
         THEN EventResult(set_focus(t, "Source"), "Normal", <<>>)
         ELSE CASE key.code = "Enter" ->
                     EventResult([t EXCEPT !.command_input = <<>>,
                                           !.last_command_response = None],
                                 "Editor", t.command_input)
                [] key.code = "Backspace" ->
                     EventResult([t EXCEPT !.command_input =
                                     IF @ = <<>> THEN @ ELSE SubSeq(@, 1, Len(@) - 1)],
                                 "Normal", <<>>)
                [] key.code = "Char" ->
                     EventResult([t EXCEPT !.command_input = Append(@, key.ch)],
                                 "Normal", <<>>)
                [] OTHER -> EventResult(t, "Normal", <<>>)
    ELSE CASE key.code = "Char" /\ key.ch = "x" /\ key.alt ->
                EventResult(set_focus(t, "Command"), "Normal", <<>>)
           [] key.code = "Char" /\ key.ch \in {"c", "e"} ->
                EventResult(set_focus(t, "Command"), "Normal", <<>>)
           [] key.code = "Char" /\ key.ch = "s" ->
                EventResult(set_focus(t, "Source"), "Normal", <<>>)
           [] key.code = "Char" /\ key.ch = "l" ->
                EventResult(set_focus(t, "Locals"), "Normal", <<>>)
           [] key.code = "Char" /\ key.ch = "o" ->
                EventResult(set_focus(t, "Logs"), "Normal", <<>>)
           [] key.code = "Char" /\ key.ch = "q" -> EventResult(t, "Quit", <<>>)
           [] key.code = "Tab" ->
                EventResult([t EXCEPT !.focus_pane_idx = next_index(Len(Panes), @, TRUE)],
                            "Normal", <<>>)
           [] OTHER -> EventResult(t, "Normal", <<>>)

\* the log screen: its widgets are not modelled, only that q quits
logging_screen_key_press(t, key) ==
    IF key.code = "Char" /\ key.ch = "q"
    THEN EventResult(t, "Quit", <<>>)
    ELSE EventResult(t, "Normal", <<>>)

\* Tui::handle_key_press, with handle_function_key
handle_key_press(t, key) ==
    CASE key.code = "F1" -> EventResult([t EXCEPT !.screen_mode = "MainDebugger"], "Normal", <<>>)
      [] key.code = "F2" -> EventResult([t EXCEPT !.screen_mode = "DebuggerLogging"], "Normal", <<>>)
      [] t.screen_mode = "MainDebugger" -> debugger_screen_key_press(t, key)
      [] OTHER -> logging_screen_key_press(t, key)

\* main's match on the result of debugger.next made to leave the loop on an error
main_match_error_breaks(res, ret) ==
    CASE res = "Ok" /\ ret = "Exit" -> [leave |-> TRUE, response |-> Some("exiting debugger")]
      [] res = "Ok" -> [leave |-> FALSE, response |-> None]
      [] OTHER -> [leave |-> TRUE, response |-> Some("error")]

\* main's match on the result of debugger.next: whether it breaks out of the
\* loop, and what it hands to record_command_response
main_match(res, ret) ==
    CASE res = "Ok" /\ ret = "Exit" -> [leave |-> TRUE, response |-> Some("exiting debugger")]
      [] res = "Ok" -> [leave |-> FALSE, response |-> None]
      [] OTHER -> [leave |-> FALSE, response |-> Some("error")]

\* the session after debugger.next returned (or did not: a panic unwinds main)
SessionAfter(res, ret) ==
    CASE res = "Panic" -> "panicked"
      [] main_match(res, ret).leave -> "exited"
      [] OTHER -> "open"

\* Tui::record_command_response, when main calls it
record_command_response(t, response) ==
    IF IsSome(response) THEN [t EXCEPT !.last_command_response = response] ELSE t

----------------------------------------------------------------------------
(* History kept for the properties *)

NoStatus == Status("-", 0, "-", 0)

SitesOf(tp) == IF IsSome(tp) THEN Unwrap(tp).breakpoint_sites ELSE EmptyMap
PidOf(tp) == IF IsSome(tp) THEN Unwrap(tp).pid ELSE 0

AddressOf(sites, id) ==
    LET i == CHOOSE i \in 1..Len(sites) : sites[i].id = id IN sites[i].address

HasRecord(sites, id) == \E i \in 1..Len(sites) : sites[i].id = id

\* pre_enable[id]: the byte the tracee held at the breakpoint's address just
\* before the enable that put id in the active-site map; kept for the ids in the
\* map and for those the last call took out of it.
\* user_disabled: the ids whose last successful enable/disable command was a
\* disable.
GhostAfter(command, r) ==
    LET old == SitesOf(target_process)
        new == SitesOf(r.w.target_process)
        same == PidOf(target_process) = PidOf(r.w.target_process)
        before == IF same THEN mem ELSE OrigMem
        kept == IF same THEN DOMAIN old ELSE {}
        ud == CASE command.kind = "Disable" /\ r.res = "Ok"
                     /\ HasRecord(breakpoint_sites, command.arg) ->
                     ghost.user_disabled \cup {command.arg}
                [] command.kind = "Enable" /\ r.res = "Ok" ->
                     ghost.user_disabled \ {command.arg}
                [] OTHER -> ghost.user_disabled
    IN  [pre_enable |->
            [id \in DOMAIN new \cup kept |->
                IF id \in kept THEN ghost.pre_enable[id]
                ELSE before[AddressOf(r.w.breakpoint_sites, id)]],
         user_disabled |->
            {id \in ud : HasRecord(r.w.breakpoint_sites, id)}]

\* the controller and the kernel after a call that returned r
Controller(r) ==
    /\ r.res \notin {"Infeasible", "Block"}
    /\ state' = r.w.state
    /\ target_process' = r.w.target_process
    /\ registers' = r.w.registers
    /\ breakpoint_sites' = r.w.breakpoint_sites
    /\ logging_thread' = r.w.logging_thread
    /\ NEXT_ID' = r.w.NEXT_ID
    /\ os' = r.w.os
    /\ mem' = r.w.mem
    /\ rip' = r.w.rip
    /\ workers' = r.w.workers
    /\ next_pid' = r.w.next_pid
    /\ inferior_output' = r.w.inferior_output

\* the variables, those of the history apart, after a call that returned r
Returns(command, status, r) ==
    /\ Controller(r)
    /\ last' = [cmd |-> command.kind, arg |-> command.arg, res |-> r.res,
                ret |-> r.ret, status |-> status, sys |-> r.w.sys]
    /\ ghost' = GhostAfter(command, r)
    /\ threads' = threads
    /\ reader' = reader
    /\ tui' = tui

\* the variables after a call that returned r and did not use the history
Becomes(command, status, r) ==
    /\ Returns(command, status, r)
    /\ UNCHANGED <<history, history_file>>

----------------------------------------------------------------------------
(* The debugger session: main.rs feeds each entered line to Debugger::next *)

Init ==
    /\ state = "Unknown"
    /\ target_process = None
    /\ registers = None
    /\ breakpoint_sites = <<>>
    /\ logging_thread = None
    /\ NEXT_ID = 1
    /\ debugging = FALSE
    /\ os = [p \in Pids |-> "none"]
    /\ mem = OrigMem
    /\ rip = 0
    /\ workers = {}
    /\ next_pid = 1
    /\ session = "open"
    /\ last = [cmd |-> "new", arg |-> 0, res |-> "Ok", ret |-> "-",
               status |-> NoStatus, sys |-> <<>>]
    /\ ghost = [pre_enable |-> EmptyMap, user_disabled |-> {}]
    /\ threads = <<>>
    /\ history = <<>>
    /\ history_file = [dir |-> TRUE, file |-> <<>>]
    /\ reader = <<>>
    /\ tui = TuiState_default
    /\ inferior_output = <<>>

\* the ids the user types: those of the breakpoints there are, and one there is not
TypedIds == {breakpoint_sites[i].id : i \in 1..Len(breakpoint_sites)} \cup {NEXT_ID}

\* Debugger::next on a line that parses to `command`
next(command, fork_ok, s1, s2) ==
    /\ session = "open"
    /\ \E r \in {dispatch_command(World, debugging, command, fork_ok, s1, s2)} :
           /\ Becomes(command, s1, r)
           /\ debugging' = r.debugging
           /\ session' = CASE r.res = "Panic" -> "panicked"
                           [] r.res = "Ok" /\ r.ret = "Exit" -> "exited"
                           [] OTHER -> "open"

CmdRun ==
    /\ next_pid <= MaxLaunch
    /\ \/ next(Command("Run", 0), FALSE, NoStatus, NoStatus)
       \/ \E s1 \in KernelStatuses(next_pid) :
             next(Command("Run", 0), TRUE, s1, NoStatus)

CmdContinue ==
    IF resume(World).res # "Ok"
    THEN next(Command("Continue", 0), TRUE, NoStatus, NoStatus)
    ELSE \E s1 \in KernelStatuses(PidOf(target_process)) :
            next(Command("Continue", 0), TRUE, s1, NoStatus)

CmdBreak ==
    /\ NEXT_ID <= MaxId
    /\ \E a \in Addrs : next(Command("Create", a), TRUE, NoStatus, NoStatus)

CmdDelete == \E id \in TypedIds : next(Command("Delete", id), TRUE, NoStatus, NoStatus)

CmdEnable == \E id \in TypedIds : next(Command("Enable", id), TRUE, NoStatus, NoStatus)

CmdDisable == \E id \in TypedIds : next(Command("Disable", id), TRUE, NoStatus, NoStatus)

CmdQuit ==
    IF state # "Running"
    THEN next(Command("Quit", 0), TRUE, NoStatus, NoStatus)
    ELSE \E s1, s2 \in KernelStatuses(PidOf(target_process)) :
            next(Command("Quit", 0), TRUE, s1, s2)

Next ==
    \/ CmdRun
    \/ CmdContinue
    \/ CmdBreak
    \/ CmdDelete
    \/ CmdEnable
    \/ CmdDisable
    \/ CmdQuit

Spec == Init /\ [][Next]_vars

----------------------------------------------------------------------------
(* wait_on_signal on its own: the controller in any state it can be in with *)
(* an inferior, and every variant of WaitStatus as the status returned.     *)

Snapshots == {[pid |-> 1, RIP |-> r, RSP |-> StackTop] : r \in Rips}

InitWait ==
    /\ state \in {"Stopped", "Running", "Exited", "Terminated"}
    /\ target_process = Some(Inferior(1))
    /\ registers \in {None} \cup {Some(s) : s \in Snapshots}
    /\ breakpoint_sites = <<>>
    /\ logging_thread = Some(1)
    /\ NEXT_ID = 1
    /\ debugging = TRUE
    /\ os = [p \in Pids |->
               IF p # 1 THEN "none"
               ELSE CASE state = "Stopped" -> "stopped"
                      [] state = "Running" -> "running"
                      [] OTHER -> "reaped"]
    /\ mem \in {OrigMem, [OrigMem EXCEPT ![0] = INTERRUPT_INSTRUCTION]}
    /\ rip \in Rips
    /\ workers = {1}
    /\ next_pid = 2
    /\ session = "open"
    /\ last = [cmd |-> "new", arg |-> 0, res |-> "Ok", ret |-> NoStatus,
               status |-> NoStatus, sys |-> <<>>]
    /\ ghost = [pre_enable |-> EmptyMap, user_disabled |-> {}]
    /\ threads = <<>>
    /\ history = <<>>
    /\ history_file = [dir |-> TRUE, file |-> <<>>]
    /\ reader = <<>>
    /\ tui = TuiState_default
    /\ inferior_output = <<>>

\* Process::wait_on_signal when waitpid returns a status the kernel can produce
WaitKernel ==
    \E status \in KernelStatuses(1) :
        \E r \in {wait_on_signal(World, status)} :
            /\ Becomes(Command("wait_on_signal", 0), status, r)
            /\ UNCHANGED <<debugging, session>>

\* Process::wait_on_signal when waitpid returns one of the other variants
WaitOther ==
    \E status \in AllStatuses(1) \ KernelStatuses(1) :
        /\ Alive(World, 1)
        /\ \E r \in {wait_classify(Sys(World, "waitpid", 1, TRUE), status)} :
               /\ Becomes(Command("wait_on_signal", 0), status, r)
               /\ UNCHANGED <<debugging, session>>

\* Process::resume
Resume ==
    \E r \in {resume(World)} :
        /\ Becomes(Command("resume", 0), NoStatus,
                   [w |-> r.w, res |-> r.res, ret |-> NoStatus])
        /\ UNCHANGED <<debugging, session>>

NextWait ==
    \/ WaitKernel
    \/ WaitOther
    \/ Resume

SpecWait == InitWait /\ [][NextWait]_vars

----------------------------------------------------------------------------
(* Process::breakpoint_command on its own: the controller with no inferior, *)
(* with a stopped one, or with one that has exited, and any sequence of     *)
(* breakpoint commands.                                                     *)

InitBreak ==
    /\ state \in {"Unknown", "Stopped", "Exited"}
    /\ target_process = IF state = "Unknown" THEN None ELSE Some(Inferior(1))
    /\ registers = IF state = "Unknown" THEN None
                   ELSE Some([pid |-> 1, RIP |-> EntryRip, RSP |-> StackTop])
    /\ breakpoint_sites = <<>>
    /\ logging_thread = IF state = "Unknown" THEN None ELSE Some(1)
    /\ NEXT_ID = 1
    /\ debugging = (state # "Unknown")
    /\ os = [p \in Pids |->
               IF p # 1 THEN "none"
               ELSE CASE state = "Stopped" -> "stopped"
                      [] state = "Exited" -> "reaped"
                      [] OTHER -> "none"]
    /\ mem = OrigMem
    /\ rip = EntryRip
    /\ workers = IF state = "Unknown" THEN {} ELSE {1}
    /\ next_pid = IF state = "Unknown" THEN 1 ELSE 2
    /\ session = "open"
    /\ last = [cmd |-> "new", arg |-> 0, res |-> "Ok", ret |-> "-",
               status |-> NoStatus, sys |-> <<>>]
    /\ ghost = [pre_enable |-> EmptyMap, user_disabled |-> {}]
    /\ threads = <<>>
    /\ history = <<>>
    /\ history_file = [dir |-> TRUE, file |-> <<>>]
    /\ reader = <<>>
    /\ tui = TuiState_default
    /\ inferior_output = <<>>

\* Process::breakpoint_command(command)
Breakpoint(command) ==
    \E r \in {breakpoint_command(World, command)} :
        /\ Becomes(command, NoStatus, [w |-> r.w, res |-> r.res, ret |-> "-"])
        /\ UNCHANGED <<debugging, session>>

BreakCreate ==
    /\ NEXT_ID <= MaxSiteId
    /\ \E a \in Addrs : Breakpoint(Command("Create", a))

BreakDelete == \E id \in TypedIds : Breakpoint(Command("Delete", id))

BreakEnable == \E id \in TypedIds : Breakpoint(Command("Enable", id))

BreakDisable == \E id \in TypedIds : Breakpoint(Command("Disable", id))

NextBreak ==
    \/ BreakCreate
    \/ BreakDelete
    \/ BreakEnable
    \/ BreakDisable

SpecBreak == InitBreak /\ [][NextBreak]_vars

----------------------------------------------------------------------------
(* The methods of Process called directly, in any order, on a controller    *)
(* as Process::new leaves it.                                               *)

\* the variables after a method, recorded in `last` under its name, returned r
Call(name, status, r) ==
    /\ session = "open"
    /\ Becomes(Command(name, 0), status, [w |-> r.w, res |-> r.res, ret |-> "-"])
    /\ debugging' = debugging
    /\ session' = IF r.res = "Panic" THEN "panicked" ELSE "open"

ProcAttach ==
    /\ next_pid <= MaxLaunch
    /\ \/ \E r \in {attach(World, FALSE, NoStatus)} : Call("attach", NoStatus, r)
       \/ \E s \in KernelStatuses(next_pid) :
             \E r \in {attach(World, TRUE, s)} : Call("attach", s, r)

ProcResume == \E r \in {resume(World)} : Call("resume", NoStatus, r)

ProcWait ==
    \E s \in KernelStatuses(PidOf(target_process)) :
        \E r \in {wait_on_signal(World, s)} : Call("wait_on_signal", s, r)

ProcDestroy ==
    IF state # "Running"
    THEN \E r \in {destroy(World, NoStatus, NoStatus)} : Call("destroy", NoStatus, r)
    ELSE \E s1, s2 \in KernelStatuses(PidOf(target_process)) :
            \E r \in {destroy(World, s1, s2)} : Call("destroy", s1, r)

NextProcess ==
    \/ ProcAttach
    \/ ProcResume
    \/ ProcWait
    \/ ProcDestroy

SpecProcess == Init /\ [][NextProcess]_vars

----------------------------------------------------------------------------
(* The methods of Process again, with the forked child followed through its *)
(* own code between the fork and the exec.  The parent does nothing the     *)
(* child can see between its fork and its waitpid, and waitpid returns only *)
(* once the child has stopped or exited, so the child's course is taken     *)
(* before the parent's wait.                                                *)

NoChild == [fate |-> "none", code |-> 0, command_loop |-> FALSE]

\* the statuses the parent's first waitpid can return for a child of course c:
\* the SIGTRAP stop of the exec under PTRACE_TRACEME, or the exit; while the
\* child runs as a debugger of its own the wait does not return
ChildStatuses(child, c) ==
    CASE c.fate = "tracee" -> {Status("Stopped", child, "SIGTRAP", EntryRip)}
      [] c.fate = "exited" -> {Status("Exited", child, "-", 0)}
      [] OTHER -> {}

Launched(fork_ok, exec_ok, c, s, r) ==
    /\ session = "open"
    /\ Controller(r)
    /\ last' = [cmd |-> "launch", arg |-> 0, res |-> r.res, ret |-> "-",
                status |-> s, sys |-> r.w.sys, fork_ok |-> fork_ok,
                exec_ok |-> exec_ok, child |-> c]
    /\ ghost' = GhostAfter(Command("attach", 0), [w |-> r.w, res |-> r.res, ret |-> "-"])
    /\ session' = IF r.res = "Panic" THEN "panicked" ELSE "open"
    /\ UNCHANGED <<debugging, threads, reader, tui, history, history_file>>

LaunchAttach ==
    /\ next_pid <= MaxLaunch
    /\ \/ \E r \in {attach(World, FALSE, NoStatus)} :
             Launched(FALSE, FALSE, NoChild, NoStatus, r)
       \/ \E pre_ok, exec_ok \in BOOLEAN :
             \E c \in {child_course(pre_ok, exec_ok)} :
                \E s \in ChildStatuses(next_pid, c) :
                   \E r \in {attach(World, TRUE, s)} :
                      Launched(TRUE, exec_ok, c, s, r)

NextLaunch ==
    \/ LaunchAttach
    \/ ProcResume
    \/ ProcWait
    \/ ProcDestroy

SpecLaunch == Init /\ [][NextLaunch]_vars

----------------------------------------------------------------------------
(* BreakpointSite::new called from several threads of one process (as the   *)
(* test harness runs tests), each thread keeping its own list of sites and  *)
(* dropping sites from it.  NEXT_ID is the one thing the threads share.     *)

Threads == 1..NumThreads

InitIds ==
    /\ state = "Unknown"
    /\ target_process = None
    /\ registers = None
    /\ breakpoint_sites = <<>>
    /\ logging_thread = None
    /\ NEXT_ID = 1
    /\ debugging = FALSE
    /\ os = [p \in Pids |-> "none"]
    /\ mem = OrigMem
    /\ rip = 0
    /\ workers = {}
    /\ next_pid = 1
    /\ session = "open"
    /\ last = [cmd |-> "new", arg |-> 0, res |-> "Ok", ret |-> "-",
               status |-> NoStatus, sys |-> <<>>]
    /\ ghost = [issued |-> <<>>]
    /\ threads = [t \in Threads |-> [pc |-> "idle", id |-> 0, sites |-> <<>>]]
    /\ history = <<>>
    /\ history_file = [dir |-> TRUE, file |-> <<>>]
    /\ reader = <<>>
    /\ tui = TuiState_default
    /\ inferior_output = <<>>

IdsFrame ==
    UNCHANGED <<state, target_process, registers, breakpoint_sites, logging_thread,
                debugging, os, mem, rip, workers, next_pid, session, last,
                history, history_file, reader, tui, inferior_output>>

\* thread t enters BreakpointSite::new and evaluates next_id()
NewFetch(t) ==
    /\ threads[t].pc = "idle"
    /\ Len(ghost.issued) < MaxIssued
    /\ \E n \in {next_id(World)} :
          /\ NEXT_ID' = n.w.NEXT_ID
          /\ threads' = [threads EXCEPT ![t].pc = "new", ![t].id = n.id]
          /\ ghost' = [issued |-> Append(ghost.issued, n.id)]
    /\ IdsFrame

\* thread t builds the site around the id it fetched and keeps it
NewReturn(t) ==
    /\ threads[t].pc = "new"
    /\ threads' = [threads EXCEPT
                     ![t].pc = "idle", ![t].id = 0,
                     ![t].sites = Append(@, [id |-> threads[t].id, address |-> 0,
                                             state |-> "Disabled"])]
    /\ UNCHANGED <<NEXT_ID, ghost>>
    /\ IdsFrame

\* thread t deletes one of its sites
DropSite(t) ==
    /\ threads[t].pc = "idle"
    /\ \E i \in 1..Len(threads[t].sites) :
          threads' = [threads EXCEPT ![t].sites = retain(@, threads[t].sites[i].id)]
    /\ UNCHANGED <<NEXT_ID, ghost>>
    /\ IdsFrame

NextIds ==
    \/ \E t \in Threads : NewFetch(t)
    \/ \E t \in Threads : NewReturn(t)
    \/ \E t \in Threads : DropSite(t)

SpecIds == InitIds /\ [][NextIds]_vars

----------------------------------------------------------------------------
(* CommandHistory on its own: constructed from whatever is at the history   *)
(* path, then any sequence of add calls, and the program started again.     *)


HistoryCommands == {<<>>, RUN, CONT}

\* files found at the history path when the program starts
FoundFiles ==
    {<<>>,
     RUN \o <<LF>>,
     RUN \o <<LF>> \o RUN \o <<LF>>,
     RUN \o <<LF, LF>> \o CONT \o <<LF>>,
     RUN \o <<LF>> \o CONT}

FoundDisks ==
    {[dir |-> FALSE, file |-> None], [dir |-> TRUE, file |-> None]}
    \cup {[dir |-> TRUE, file |-> Some(f)] : f \in FoundFiles}

\* accepted: the last entry loaded or passed to add that was neither empty nor
\* equal to the accepted entry before it.  absent: no file at construction.
\* adds: the calls of add made so far.
InitHistory ==
    /\ state = "Unknown"
    /\ target_process = None
    /\ registers = None
    /\ breakpoint_sites = <<>>
    /\ logging_thread = None
    /\ NEXT_ID = 1
    /\ debugging = FALSE
    /\ os = [p \in Pids |-> "none"]
    /\ mem = OrigMem
    /\ rip = 0
    /\ workers = {}
    /\ next_pid = 1
    /\ session = "open"
    /\ last = [cmd |-> "new", arg |-> <<>>, res |-> "Ok", io |-> "ok"]
    /\ threads = <<>>
    /\ reader = <<>>
    /\ tui = TuiState_default
    /\ inferior_output = <<>>
    /\ history_file \in FoundDisks
    /\ history = read_history(history_file)
    /\ ghost = [accepted |-> last_command(read_history(history_file)),
                absent |-> ~IsSome(history_file.file), adds |-> 0]

HistoryFrame ==
    UNCHANGED <<state, target_process, registers, breakpoint_sites, logging_thread,
                NEXT_ID, debugging, os, mem, rip, workers, next_pid, session,
                threads, reader, tui, inferior_output>>

\* CommandHistory::add(cmd)
HistoryAdd ==
    /\ ghost.adds < MaxAdds
    /\ \E cmd \in HistoryCommands, io \in IoOutcomes :
          \E r \in {add(history, history_file, cmd, io)} :
              /\ history' = r.history
              /\ history_file' = r.fs
              /\ last' = [cmd |-> "add", arg |-> cmd, res |-> r.res, io |-> io]
              /\ ghost' = [ghost EXCEPT !.adds = @ + 1,
                                        !.accepted =
                                           IF cmd = <<>> \/ Some(cmd) = ghost.accepted
                                           THEN @ ELSE Some(cmd)]
    /\ HistoryFrame

\* the program is started again: CommandHistory::new
HistoryNew ==
    /\ history' = read_history(history_file)
    /\ history' # history
    /\ last' = [cmd |-> "new", arg |-> <<>>, res |-> "Ok", io |-> "ok"]
    /\ ghost' = [ghost EXCEPT !.accepted = last_command(read_history(history_file))]
    /\ UNCHANGED history_file
    /\ HistoryFrame

NextHistory ==
    \/ HistoryAdd
    \/ HistoryNew

SpecHistory == InitHistory /\ [][NextHistory]_vars

----------------------------------------------------------------------------
(* Debugger::next on the lines a user enters: the history, the parser and   *)
(* the dispatch together, on a debugger and a controller as constructed.    *)

\* the lines entered: the empty line, commands, and lines that do not parse
TypedLines ==
    {<<>>, <<"r">>, CONT, <<"q">>, <<"B", " ", "0">>,
     <<"b">>, <<"b", " ", "x">>, <<"x">>}

\* what the kernel may answer to the fork and the waits of a command
Answers(c) ==
    CASE c.res # "Ok" -> {<<TRUE, NoStatus, NoStatus>>}
      [] c.command.kind = "Run" ->
            {<<FALSE, NoStatus, NoStatus>>}
            \cup {<<TRUE, s1, NoStatus>> : s1 \in KernelStatuses(next_pid)}
      [] c.command.kind = "Continue" /\ resume(World).res = "Ok" ->
            {<<TRUE, s1, NoStatus>> : s1 \in KernelStatuses(PidOf(target_process))}
      [] c.command.kind = "Quit" /\ state = "Running" ->
            {<<TRUE, s1, s2>> : s1, s2 \in KernelStatuses(PidOf(target_process))}
      [] OTHER -> {<<TRUE, NoStatus, NoStatus>>}

\* what the file system answers to the add of a line: next sees only whether
\* add returned an error, so one failing answer stands for the three
OpenOutcomes == {"ok", "open_err"}

Enter(line) ==
    /\ session = "open"
    /\ \E c \in {Command_try_from(replayed(history, line))} :
          /\ (c.res = "Ok" /\ c.command.kind = "Run") => next_pid <= MaxLaunch
          /\ \E io \in OpenOutcomes, k \in Answers(c) :
               \E r \in {Debugger_next(World, debugging, history, history_file,
                                       line, io, k[1], k[2], k[3])} :
                   /\ Controller(r)
                   /\ debugging' = r.debugging
                   /\ session' = SessionAfter(r.res, r.ret)
                   /\ history' = r.history
                   /\ history_file' = r.fs
                   /\ last' = [cmd |-> "next", line |-> line, io |-> io, answers |-> k,
                               parsed |-> c, res |-> r.res, ret |-> r.ret,
                               steps |-> r.steps, sys |-> r.w.sys]
                   /\ UNCHANGED <<ghost, threads, reader>>

EnterEmpty == Enter(<<>>) /\ UNCHANGED tui

EnterLine ==
    /\ Len(history) < MaxEntered
    /\ \E line \in TypedLines \ {<<>>} : Enter(line)
    /\ UNCHANGED tui

NextLines ==
    \/ EnterEmpty
    \/ EnterLine

SpecNext == Init /\ [][NextLines]_vars

----------------------------------------------------------------------------
(* The main loop: each turn renders the screen and takes one event, a key   *)
(* press or output of the inferior; a line ended with Enter goes to         *)
(* Debugger::next.  The session starts with no inferior, or with one that   *)
(* an earlier command launched.                                             *)

MaxTyped == 1     \* characters typed into a line, and lines recorded, in a session

\* the keys pressed
Keys ==
    {Key("Char", ch, FALSE) : ch \in {"c", "q", "x"}}
    \cup {Key("Char", "x", TRUE), Key("Enter", "", FALSE), Key("Backspace", "", FALSE),
          Key("F1", "", FALSE), Key("F2", "", FALSE)}

MainFrame ==
    UNCHANGED <<state, target_process, registers, breakpoint_sites, logging_thread,
                NEXT_ID, debugging, os, mem, rip, workers, next_pid, ghost, threads,
                history, history_file, reader>>

Turn(event, result) == [cmd |-> "main", event |-> event, result |-> result]

\* tui.render(&debugger, &process)? fails: main returns the error
MainRenderFails ==
    /\ session = "open"
    /\ session' = "failed"
    /\ last' = Turn("render", "Err")
    /\ UNCHANGED tui
    /\ UNCHANGED inferior_output
    /\ MainFrame

\* a key press that handle_key_press answers with EventResult::Normal
MainKeyNormal ==
    /\ session = "open"
    /\ \E key \in Keys :
         \E e \in {handle_key_press(tui, key)} :
            /\ e.ret = "Normal"
            /\ Len(e.tui.command_input) <= MaxTyped
            /\ tui' = e.tui
            /\ last' = Turn(key, "Normal")
    /\ UNCHANGED session
    /\ UNCHANGED inferior_output
    /\ MainFrame

\* a key press that handle_key_press answers with EventResult::Quit
MainKeyQuit ==
    /\ session = "open"
    /\ \E key \in Keys :
         \E e \in {handle_key_press(tui, key)} :
            /\ e.ret = "Quit"
            /\ tui' = e.tui
            /\ last' = Turn(key, "Quit")
    /\ session' = "exited"
    /\ UNCHANGED inferior_output
    /\ MainFrame

\* Enter in the command pane: EventResult::Editor, then debugger.next
MainKeyEditor ==
    \E e \in {handle_key_press(tui, Key("Enter", "", FALSE))} :
        /\ e.ret = "Editor"
        /\ e.command # <<>> => Len(history) < MaxTyped
        /\ Enter(e.command)
        /\ tui' = record_command_response(e.tui, main_match(last'.res, last'.ret).response)

\* output of the inferior arrives on process_rx; the inferior of this
\* specification prints empty lines only (SpecOutput follows other output)
MainInferiorOutput ==
    /\ session = "open"
    /\ workers # {}
    /\ inferior_output' = receive_inferior_logging(inferior_output, <<LF>>)
    /\ last' = Turn("inferior_output", "Normal")
    /\ UNCHANGED <<session, tui>>
    /\ MainFrame

NextMain ==
    \/ MainRenderFails
    \/ MainKeyNormal
    \/ MainKeyQuit
    \/ MainKeyEditor
    \/ MainInferiorOutput

SpecMain == InitBreak /\ [][NextMain]_vars

----------------------------------------------------------------------------
(* RegisterSnapshot on its own: a snapshot taken of a stopped tracee, which *)
(* may have been killed since, read and written register by register.       *)

MaxSeed == 1      \* the register files tried are UserRegs(0..MaxSeed)

\* the values written
WrittenValues ==
    {RegisterValue("Uint64", Bytes(9, 8)), RegisterValue("Double", Bytes(9, 8)),
     RegisterValue("Byte128", Bytes(9, 16))}

InitRegisters ==
    /\ state = "Stopped"
    /\ target_process = Some(Inferior(1))
    /\ \E seed \in 0..MaxSeed :
          /\ registers = Some(UserRegs(seed))
          /\ ghost = [tracee |-> UserRegs(seed)]
    /\ breakpoint_sites = <<>>
    /\ logging_thread = Some(1)
    /\ NEXT_ID = 1
    /\ debugging = TRUE
    /\ os \in {[p \in Pids |-> IF p = 1 THEN st ELSE "none"] : st \in {"stopped", "killed"}}
    /\ mem = OrigMem
    /\ rip = EntryRip
    /\ workers = {1}
    /\ next_pid = 2
    /\ session = "open"
    /\ last = [cmd |-> "new", arg |-> "-", res |-> "Ok"]
    /\ threads = <<>>
    /\ history = <<>>
    /\ history_file = [dir |-> TRUE, file |-> <<>>]
    /\ reader = <<>>
    /\ tui = TuiState_default
    /\ inferior_output = <<>>

RegistersFrame ==
    UNCHANGED <<state, target_process, breakpoint_sites, logging_thread, NEXT_ID,
                debugging, os, mem, rip, workers, next_pid, session, ghost, threads,
                history, history_file, reader, tui, inferior_output>>

\* snapshot.get_value(&register)
RegGetValue ==
    /\ \E register \in Readable :
          last' = [cmd |-> "get_value", arg |-> register, res |-> "Ok",
                   value |-> get_value(Unwrap(registers), register)]
    /\ UNCHANGED registers
    /\ RegistersFrame

\* snapshot.set_value(register, value): the snapshot returned goes to the caller
RegSetValue ==
    /\ \E register \in Readable, value \in WrittenValues :
         \E r \in {set_value(Unwrap(registers), register, value,
                             Traced(World, 1), ghost.tracee)} :
            last' = [cmd |-> "set_value", arg |-> register, res |-> r.res,
                     value |-> value, returned |-> r.snapshot]
    /\ UNCHANGED registers
    /\ RegistersFrame

NextRegisters ==
    \/ RegGetValue
    \/ RegSetValue

SpecRegisters == InitRegisters /\ [][NextRegisters]_vars

----------------------------------------------------------------------------
(* process/inferior.rs: the reader worker (read_inferior_logging) of a      *)
(* running inferior, the pty it polls, its shutdown channel, and the main   *)
(* thread, which may destroy the inferior, leave its loop and send the      *)
(* shutdown, and return from main, dropping the sender.                     *)
(*                                                                          *)
(* reader.pc       where the worker is: "poll" (in poll.poll), "woke" (poll *)
(*                 returned, `events` filled), "returned"                   *)
(* reader.events   events the last poll returned for the pty (0 or 1)       *)
(* reader.data     chunks written by the tracee and not yet read            *)
(* reader.slave    "open" while the tracee holds the slave side             *)
(* reader.edge     the pty changed since the last poll (mio is edge         *)
(*                 triggered: a new event needs a change)                   *)
(* reader.queued   messages in the shutdown channel                         *)
(* reader.connected  the sender of the shutdown channel exists              *)
(* reader.signalled  a shutdown was sent or the sender dropped              *)
(* reader.main     "running" | "join" (in handle.join() of destroy) |       *)
(*                 "destroyed" | "left" (main loop left) | "gone"           *)
(* reader.written  chunks the tracee has written in all                     *)

MaxChunks == 2    \* chunks of output the tracee writes

\* what read on the master of a pty whose slave is closed and which holds no
\* data may return: Linux answers EIO; an end of file is what other systems give
HangupReads == {"eio", "eof"}

InitReader ==
    /\ state = "Running"
    /\ target_process = Some(Inferior(1))
    /\ registers = None
    /\ breakpoint_sites = <<>>
    /\ logging_thread = Some(1)
    /\ NEXT_ID = 1
    /\ debugging = TRUE
    /\ os = [p \in Pids |-> IF p = 1 THEN "running" ELSE "none"]
    /\ mem = OrigMem
    /\ rip = EntryRip
    /\ workers = {1}
    /\ next_pid = 2
    /\ session = "open"
    /\ last = [cmd |-> "spawn", res |-> "Ok"]
    /\ ghost = [pre_enable |-> EmptyMap, user_disabled |-> {}]
    /\ threads = <<>>
    /\ history = <<>>
    /\ history_file = [dir |-> TRUE, file |-> <<>>]
    /\ reader = [pc |-> "poll", events |-> 0, data |-> 0, slave |-> "open",
                 edge |-> FALSE, queued |-> 0, connected |-> TRUE,
                 signalled |-> FALSE, main |-> "running", written |-> 0]
    /\ tui = TuiState_default
    /\ inferior_output = <<>>

ReaderFrame ==
    UNCHANGED <<state, target_process, registers, breakpoint_sites, logging_thread,
                NEXT_ID, debugging, mem, rip, next_pid, session, ghost, threads,
                history, history_file, tui, inferior_output>>

\* the tracee writes to its stdout
TraceeWrites ==
    /\ reader.slave = "open"
    /\ reader.written < MaxChunks
    /\ reader' = [reader EXCEPT !.data = @ + 1, !.written = @ + 1, !.edge = TRUE]
    /\ last' = [cmd |-> "write", res |-> "Ok"]
    /\ UNCHANGED <<os, workers>>
    /\ ReaderFrame

\* Process::destroy from Running, up to the join: SIGSTOP, waitpid, detach,
\* SIGCONT, SIGKILL, wait_on_signal; the tracee is gone and with it the last
\* descriptor of the slave
MainDestroy ==
    /\ reader.main = "running"
    /\ reader' = [reader EXCEPT !.main = "join", !.slave = "closed", !.edge = TRUE]
    /\ os' = [os EXCEPT ![1] = "reaped"]
    /\ last' = [cmd |-> "destroy", res |-> "-"]
    /\ UNCHANGED workers
    /\ ReaderFrame

\* handle.join() returns once the worker has returned, and destroy with it
MainJoin ==
    /\ reader.main = "join"
    /\ reader.pc = "returned"
    /\ reader' = [reader EXCEPT !.main = "destroyed"]
    /\ workers' = {}
    /\ last' = [cmd |-> "destroy", res |-> "Ok"]
    /\ UNCHANGED os
    /\ ReaderFrame

\* main leaves its loop and sends on process_shutdown_tx
MainSendsShutdown ==
    /\ reader.main \in {"running", "destroyed"}
    /\ reader' = [reader EXCEPT !.main = "left", !.queued = @ + 1, !.signalled = TRUE]
    /\ last' = [cmd |-> "shutdown", res |-> "Ok"]
    /\ UNCHANGED <<os, workers>>
    /\ ReaderFrame

\* main returns: process_shutdown_tx is dropped
MainDropsSender ==
    /\ reader.main = "left"
    /\ reader' = [reader EXCEPT !.main = "gone", !.connected = FALSE, !.signalled = TRUE]
    /\ last' = [cmd |-> "drop", res |-> "Ok"]
    /\ UNCHANGED <<os, workers>>
    /\ ReaderFrame

\* poll.poll(&mut events, 42 ms) returns: with the event of the pty if it
\* changed since the last poll, with none after the timeout otherwise
WorkerPoll ==
    /\ reader.pc = "poll"
    /\ reader' = [reader EXCEPT !.pc = "woke",
                                !.events = IF reader.edge THEN 1 ELSE 0,
                                !.edge = FALSE]
    /\ last' = [cmd |-> "poll", res |-> IF reader.edge THEN "event" ELSE "timeout"]
    /\ UNCHANGED <<os, workers>>
    /\ ReaderFrame

\* Receiver::try_recv on the shutdown channel
try_recv(r) ==
    CASE r.queued > 0 -> [res |-> "Ok", r |-> [r EXCEPT !.queued = @ - 1]]
      [] ~r.connected -> [res |-> "Disconnected", r |-> r]
      [] OTHER -> [res |-> "Empty", r |-> r]

\* the body of `for event in events.iter()` for the event of the pty: the
\* read if the event is readable, then the try_recv, whose `break` leaves the
\* for loop only; either way the worker is back in poll unless the read
\* returned Ok(0).  `readable` is EPOLLIN of the event.
for_event(r, readable, hangup_read) ==
    LET read == CASE ~readable -> [res |-> "-", r |-> r]
                  [] r.data > 0 -> [res |-> "Ok(n)", r |-> [r EXCEPT !.data = 0]]
                  [] hangup_read = "eof" -> [res |-> "Ok(0)", r |-> r]
                  [] OTHER -> [res |-> "Err", r |-> r]
    IN  IF read.res = "Ok(0)"
        THEN [res |-> "Ok(0)", r |-> [read.r EXCEPT !.pc = "returned", !.events = 0]]
        ELSE [res |-> read.res,
              r |-> [try_recv(read.r).r EXCEPT !.pc = "poll", !.events = 0]]

\* the worker takes the event poll returned
WorkerEvent ==
    /\ reader.pc = "woke"
    /\ reader.events > 0
    /\ \E readable \in (IF reader.data > 0 THEN {TRUE} ELSE BOOLEAN),
          hangup_read \in HangupReads :
         \E e \in {for_event(reader, readable, hangup_read)} :
            /\ reader' = e.r
            /\ last' = [cmd |-> "event", res |-> e.res]
    /\ UNCHANGED <<os, workers>>
    /\ ReaderFrame

\* poll returned no event: the for loop has nothing to run, back to poll
WorkerNoEvent ==
    /\ reader.pc = "woke"
    /\ reader.events = 0
    /\ reader' = [reader EXCEPT !.pc = "poll"]
    /\ last' = [cmd |-> "no_event", res |-> "-"]
    /\ UNCHANGED <<os, workers>>
    /\ ReaderFrame

NextReader ==
    \/ TraceeWrites
    \/ MainDestroy
    \/ MainJoin
    \/ MainSendsShutdown
    \/ MainDropsSender
    \/ WorkerPoll
    \/ WorkerEvent
    \/ WorkerNoEvent

\* the worker is a thread of its own and the scheduler runs it; a join whose
\* thread has returned completes
SpecReaderFair ==
    /\ InitReader
    /\ [][NextReader]_vars
    /\ WF_vars(WorkerPoll)
    /\ WF_vars(WorkerEvent)
    /\ WF_vars(WorkerNoEvent)
    /\ WF_vars(MainJoin)

----------------------------------------------------------------------------
(* The inferior's output on its way to the controller: the tracees write to *)
(* their ptys, each reader worker reads a chunk and sends it on the channel *)
(* all workers share (inferior_tx), and main receives from process_rx       *)
(* between the Process methods it calls.                                    *)
(*                                                                          *)
(* reader.pty[p]    bytes tracee p has written and its worker has not read  *)
(* reader.chunk[p]  the chunk worker p has read and not yet sent            *)
(* reader.rx        the channel: chunks sent and not yet received, each     *)
(*                  with the pid of the tracee it comes from                *)
(* ghost.received   the chunks main received since the last attach, joined  *)
(* ghost.origin     for each line of inferior_output, the tracee it is of   *)
(* ghost.written    chunks written by the tracees in all                    *)

\* what a tracee writes in one go: the start of a line, and a whole line
Texts == {<<"a">>, <<"b", LF>>}

InitOutput ==
    /\ state = "Unknown"
    /\ target_process = None
    /\ registers = None
    /\ breakpoint_sites = <<>>
    /\ logging_thread = None
    /\ NEXT_ID = 1
    /\ debugging = FALSE
    /\ os = [p \in Pids |-> "none"]
    /\ mem = OrigMem
    /\ rip = 0
    /\ workers = {}
    /\ next_pid = 1
    /\ session = "open"
    /\ last = [cmd |-> "new", res |-> "Ok"]
    /\ ghost = [received |-> <<>>, origin |-> <<>>, written |-> 0]
    /\ threads = <<>>
    /\ history = <<>>
    /\ history_file = [dir |-> TRUE, file |-> <<>>]
    /\ reader = [pty |-> [p \in Pids |-> <<>>], chunk |-> [p \in Pids |-> None],
                 rx |-> <<>>]
    /\ tui = TuiState_default
    /\ inferior_output = <<>>

\* the variables after main called a method of Process that returned r
OutputCall(name, r) ==
    /\ session = "open"
    /\ Controller(r)
    /\ r.res # "Panic"
    /\ last' = [cmd |-> name, res |-> r.res]
    /\ UNCHANGED <<debugging, session, threads, history, history_file, reader, tui>>

\* `run`: Process::attach
OutputAttach ==
    /\ next_pid <= MaxLaunch
    /\ \/ \E r \in {attach(World, FALSE, NoStatus)} : OutputCall("attach", r)
       \/ \E s \in KernelStatuses(next_pid) :
             \E r \in {attach(World, TRUE, s)} : OutputCall("attach", r)
    /\ ghost' = [ghost EXCEPT !.received = <<>>, !.origin = <<>>]

OutputResume ==
    /\ \E r \in {resume(World)} : OutputCall("resume", r)
    /\ UNCHANGED ghost

OutputWait ==
    /\ \E s \in KernelStatuses(PidOf(target_process)) :
          \E r \in {wait_on_signal(World, s)} : OutputCall("wait_on_signal", r)
    /\ UNCHANGED ghost

OutputFrame ==
    UNCHANGED <<state, target_process, registers, breakpoint_sites, logging_thread,
                NEXT_ID, debugging, os, mem, rip, workers, next_pid, session,
                threads, history, history_file, tui>>

\* a running tracee writes to its stdout
OutputTraceeWrites ==
    /\ ghost.written < MaxChunks
    /\ \E p \in Pids, text \in Texts :
          /\ os[p] = "running"
          /\ reader' = [reader EXCEPT !.pty[p] = @ \o text]
          /\ last' = [cmd |-> "write", res |-> "Ok"]
    /\ ghost' = [ghost EXCEPT !.written = @ + 1]
    /\ UNCHANGED inferior_output
    /\ OutputFrame

\* worker p: file.read returns what the pty holds
OutputWorkerReads ==
    /\ \E p \in workers :
          /\ reader.pty[p] # <<>>
          /\ reader.chunk[p] = None
          /\ reader' = [reader EXCEPT !.pty[p] = <<>>, !.chunk[p] = Some(reader.pty[p])]
          /\ last' = [cmd |-> "read", res |-> "Ok(n)"]
    /\ UNCHANGED <<ghost, inferior_output>>
    /\ OutputFrame

\* worker p: send_channel.send(s.into_owned())
OutputWorkerSends ==
    /\ \E p \in workers :
          /\ reader.chunk[p] # None
          /\ reader' = [reader EXCEPT
                          !.chunk[p] = None,
                          !.rx = Append(@, [from |-> p, text |-> Unwrap(reader.chunk[p])])]
          /\ last' = [cmd |-> "send", res |-> "Ok"]
    /\ UNCHANGED <<ghost, inferior_output>>
    /\ OutputFrame

\* main: recv(process_rx) -> Ok(s) => process.receive_inferior_logging(s)
OutputMainReceives ==
    /\ session = "open"
    /\ reader.rx # <<>>
    /\ \E m \in {Head(reader.rx)} :
         \E buf \in {receive_inferior_logging(inferior_output, m.text)} :
            /\ inferior_output' = buf
            /\ reader' = [reader EXCEPT !.rx = Tail(@)]
            /\ ghost' = [ghost EXCEPT
                           !.received = @ \o m.text,
                           !.origin = @ \o [i \in 1..(Len(buf) - Len(inferior_output))
                                              |-> m.from]]
            /\ last' = [cmd |-> "receive", res |-> "Ok"]
    /\ OutputFrame

NextOutput ==
    \/ OutputAttach
    \/ OutputResume
    \/ OutputWait
    \/ OutputTraceeWrites
    \/ OutputWorkerReads
    \/ OutputWorkerSends
    \/ OutputMainReceives

SpecOutput == InitOutput /\ [][NextOutput]_vars

----------------------------------------------------------------------------
(* Properties *)

TraceePid == PidOf(target_process)
InferiorStopped == IsSome(target_process) /\ Traced(World, TraceePid)
InferiorAlive == IsSome(target_process) /\ Alive(World, TraceePid)
ByteAt(addr) == LowByte(PeekWord(World, addr))

\* C1: a successful enable followed by a successful disable of the same
\* breakpoint on a stopped tracee leaves the byte at bp.address as it was
\* before the enable.
C1_EnableDisableRestores ==
    (last.cmd = "Disable" /\ last.res = "Ok" /\ InferiorStopped)
    => \A id \in DOMAIN ghost.pre_enable \ DOMAIN SitesOf(target_process) :
          (id = last.arg /\ HasRecord(breakpoint_sites, id))
          => ByteAt(AddressOf(breakpoint_sites, id)) = ghost.pre_enable[id]

\* C2: when `quit` is handled while the launched inferior is alive, the
\* inferior has been killed and reaped by the time next returns Exit.
C2_QuitDestroysInferior ==
    (session = "exited" /\ IsSome(target_process)) => ~Alive(World, TraceePid)

\* C3: read_register returns Some only while the tracee is Stopped: after a
\* resume, and after wait observed Exited or Signaled, it returns None for
\* every register.
C3_RegistersOnlyWhileStopped ==
    \A reg \in {"RIP", "RSP"} :
        IsSome(read_register(World, reg)) => state = "Stopped"

\* C4: every breakpoint the user created and has not disabled or deleted is
\* patched into the tracee by the time attach returns Ok.
C4_BreakpointsPatchedAfterAttach ==
    (last.cmd = "Run" /\ last.res = "Ok" /\ InferiorStopped)
    => \A i \in 1..Len(breakpoint_sites) :
          (breakpoint_sites[i].id \notin ghost.user_disabled
             /\ WordMapped(breakpoint_sites[i].address))
          => ByteAt(breakpoint_sites[i].address) = INTERRUPT_INSTRUCTION

\* C5: for every entry of a live Inferior's active-site map, the low byte of
\* the tracee word at that breakpoint's address is 0xCC.
C5_ActiveSitesArePatched ==
    InferiorAlive
    => \A id \in DOMAIN SitesOf(target_process) :
          /\ HasRecord(breakpoint_sites, id)
          /\ ByteAt(AddressOf(breakpoint_sites, id)) = INTERRUPT_INSTRUCTION

C5_Witness ==
    InferiorAlive /\ DOMAIN SitesOf(target_process) # {} /\ last.cmd = "Continue"

\* C6: after attach returns Ok for an executable whose first wait event is a
\* stop, the state is Stopped and RIP and RSP can both be read.
C6_AttachStopsWithSnapshot ==
    (last.cmd = "Run" /\ last.res = "Ok" /\ last.status.kind = "Stopped")
    => /\ state = "Stopped"
       /\ IsSome(read_register(World, "RIP"))
       /\ IsSome(read_register(World, "RSP"))

C6_Witness ==
    last.cmd = "Run" /\ last.res = "Ok" /\ last.status.kind = "Stopped"

\* C7: wait_on_signal sets the state from the status (Exited gives Exited,
\* Signaled gives Terminated, Stopped gives Stopped, any other status leaves
\* it unchanged), replaces the snapshot with the tracee's current registers
\* whenever the resulting state is Stopped, and returns the raw status.
C7_WaitClassifies ==
    [][(last'.cmd = "wait_on_signal" /\ last'.res = "Ok")
       => /\ state' = CASE last'.status.kind = "Exited" -> "Exited"
                        [] last'.status.kind = "Signaled" -> "Terminated"
                        [] last'.status.kind = "Stopped" -> "Stopped"
                        [] OTHER -> state
          /\ (state' = "Stopped")
                => registers' = Some([pid |-> PidOf(target_process'),
                                      RIP |-> rip', RSP |-> StackTop])
          /\ last'.ret = last'.status]_vars

C7_Witness ==
    /\ last.cmd = "wait_on_signal" /\ last.res = "Ok"
    /\ last.status.kind = "Stopped" /\ state = "Stopped"
    /\ registers = Some([pid |-> TraceePid, RIP |-> rip, RSP |-> StackTop])

\* C8: after wait_on_signal observes Exited or Signaled the controller holds
\* no Inferior (pid() is None) and the reader worker has been torn down.
C8_ExitTearsDownInferior ==
    state \in {"Exited", "Terminated"}
    => /\ pid(World) = None
       /\ logging_thread = None
       /\ workers = {}

\* C9: every peek or poke made for breakpoint patching is issued while the
\* controller state is Stopped.
C9_PatchOnlyWhileStopped ==
    \A i \in 1..Len(last.sys) :
        last.sys[i].call \in {"peek", "poke"} => last.sys[i].state = "Stopped"

\* C10: after a successful Create(addr) the new record is enabled and, if an
\* inferior is live, its id is in the inferior's active-site map.
C10_CreateEnablesBreakpoint ==
    (last.cmd = "Create" /\ last.res = "Ok")
    => LET b == breakpoint_sites[Len(breakpoint_sites)]
       IN  /\ is_enabled(b)
           /\ InferiorAlive => b.id \in DOMAIN SitesOf(target_process)

HasAddress(sites, address) == \E i \in 1..Len(sites) : sites[i].address = address
HasFlag(sites, id, flag) == \E i \in 1..Len(sites) : sites[i].id = id /\ sites[i].state = flag
PatchFailed(sys) == \E i \in 1..Len(sys) : sys[i].call \in {"peek", "poke"} /\ ~sys[i].ok
WithoutIndex(sites, i) == SubSeq(sites, 1, i - 1) \o SubSeq(sites, i + 1, Len(sites))

\* C11: Create(a) when a record at address a already exists returns an error
\* and leaves the breakpoint list unchanged, and in every reachable state no
\* two breakpoint records share an address.
C11_NoDuplicateAddress ==
    /\ [](\A i, j \in 1..Len(breakpoint_sites) :
            breakpoint_sites[i].address = breakpoint_sites[j].address => i = j)
    /\ [][(last'.cmd = "Create" /\ HasAddress(breakpoint_sites, last'.arg))
           => (last'.res = "Err" /\ breakpoint_sites' = breakpoint_sites)]_vars

C11_Witness ==
    /\ last.cmd = "Create" /\ last.res = "Err" /\ last.sys = <<>>
    /\ HasAddress(breakpoint_sites, last.arg)

\* C12: when the peek or the poke of enable_breakpoint_site fails during a
\* Create or an Enable command, the command returns the error, the breakpoint
\* records and their flags are as before the command, and the active-site
\* map has gained no entry.
C12_PatchFailureChangesNothing ==
    [][(last'.cmd \in {"Create", "Enable"} /\ PatchFailed(last'.sys))
       => /\ last'.res = "Err"
          /\ breakpoint_sites' = breakpoint_sites
          /\ DOMAIN SitesOf(target_process') \subseteq DOMAIN SitesOf(target_process)]_vars

\* C13: Enable(id) and Disable(id) with an id that no breakpoint record has
\* return an error and change nothing.
C13_UnknownIdIsAnError ==
    [][(last'.cmd \in {"Enable", "Disable"} /\ ~HasRecord(breakpoint_sites, last'.arg))
       => /\ last'.res = "Err"
          /\ UNCHANGED <<state, target_process, registers, breakpoint_sites, mem>>]_vars

C15_RepeatedEnableDisable ==
    [][(\/ last'.cmd = "Enable" /\ HasFlag(breakpoint_sites, last'.arg, "Enabled")
        \/ last'.cmd = "Disable" /\ HasFlag(breakpoint_sites, last'.arg, "Disabled"))
       => /\ last'.res = "Ok"
          /\ breakpoint_sites' = breakpoint_sites
          /\ target_process' = target_process
          /\ mem' = mem]_vars

Issued(sys, call) == \E i \in 1..Len(sys) : sys[i].call = call

\* C17: resume called in state Unknown, Exited or Terminated returns an error
\* without issuing a continue request and leaves the state and the snapshot
\* unchanged; called in state Stopped it issues the continue and sets the
\* state to Running.
C17_ResumeChecksState ==
    [][(last'.cmd = "resume")
       => /\ state \in {"Unknown", "Exited", "Terminated"}
               => /\ last'.res = "Err"
                  /\ last'.sys = <<>>
                  /\ UNCHANGED <<state, registers, os>>
          /\ state = "Stopped"
               => /\ last'.res = "Ok"
                  /\ last'.sys = <<[call |-> "cont", pid |-> PidOf(target_process),
                                    state |-> "Stopped", ok |-> TRUE]>>
                  /\ os'[PidOf(target_process)] = "running"
                  /\ state' = "Running"]_vars

C17_Witness ==
    /\ last.cmd = "resume" /\ last.res = "Err" /\ last.sys = <<>>
    /\ state \in {"Exited", "Terminated"} /\ IsSome(registers)

\* C18: attach called while the state is Running returns Ok without forking a
\* process, and leaves the state, the inferior, the reader worker and the
\* breakpoints unchanged.
C18_AttachWhileRunningIsNoOp ==
    [][(last'.cmd = "attach" /\ state = "Running")
       => /\ last'.res = "Ok"
          /\ ~Issued(last'.sys, "fork")
          /\ UNCHANGED <<state, target_process, logging_thread, workers,
                         breakpoint_sites, next_pid>>]_vars

\* C19: destroy called in a state other than Running returns Ok and does
\* nothing (no signal, no wait; state, inferior, snapshot and worker handle
\* unchanged), so a destroy after a destroy that returned Ok changes nothing.
C19_DestroyNoOpUnlessRunning ==
    [][(last'.cmd = "destroy")
       => /\ state # "Running"
               => /\ last'.res = "Ok"
                  /\ last'.sys = <<>>
                  /\ UNCHANGED <<state, target_process, registers, logging_thread,
                                 workers, os, mem, rip>>
          /\ (last.cmd = "destroy" /\ last.res = "Ok")
               => UNCHANGED <<state, target_process, registers, logging_thread,
                              workers, os, mem, rip>>]_vars

C19_Witness ==
    /\ last.cmd = "destroy" /\ last.res = "Ok" /\ last.sys = <<>>
    /\ IsSome(target_process) /\ logging_thread = None

\* C20: after destroy returns Ok from state Running the state is Unknown.
C20_DestroyLeavesUnknown ==
    (last.cmd = "destroy" /\ last.res = "Ok" /\ Issued(last.sys, "SIGKILL"))
    => state = "Unknown"

\* the ids thread t holds: those of its sites and the one it has just fetched
HeldBy(t) ==
    {threads[t].sites[i].id : i \in 1..Len(threads[t].sites)}
    \cup (IF threads[t].pc = "new" THEN {threads[t].id} ELSE {})

RECURSIVE AsLines(_)
AsLines(h) == IF h = <<>> THEN <<>> ELSE h[1] \o <<LF>> \o AsLines(Tail(h))

\* C21: in every reachable state of CommandHistory no two adjacent in-memory
\* entries are equal, no entry is the empty string, and last_command()
\* returns the most recently accepted entry, or None when there is none.
C21_HistoryWellFormed ==
    /\ \A i \in 2..Len(history) : history[i] # history[i - 1]
    /\ \A i \in 1..Len(history) : history[i] # <<>>
    /\ last_command(history) = ghost.accepted

\* C22: starting from an absent history file, the file content is always the
\* in-memory entries in order, each followed by one LF, and every add either
\* leaves the file unchanged or appends exactly the command and one LF.
C22_FileMirrorsMemory ==
    /\ [](ghost.absent => FileBytes(history_file) = AsLines(history))
    /\ [][(ghost.absent /\ last'.cmd = "add")
           => \/ FileBytes(history_file') = FileBytes(history_file)
              \/ FileBytes(history_file') =
                    FileBytes(history_file) \o last'.arg \o <<LF>>]_vars

Did(steps, name) == \E i \in 1..Len(steps) : steps[i] = name

\* C23: Debugger::next on an empty line with an empty history returns Normal
\* and changes neither the controller, the kernel nor the history; with a
\* non-empty history it does to the controller and returns exactly what next
\* does on the last entry of the history entered as a line (under the same
\* answers of the kernel and any answer of the file system), and the history,
\* in memory and on disk, is as before.
C23_EmptyLineReplays ==
    [][(last'.cmd = "next" /\ last'.line = <<>>) =>
         /\ history' = history
         /\ history_file' = history_file
         /\ IF history = <<>>
            THEN /\ last'.res = "Ok" /\ last'.ret = "Normal" /\ last'.sys = <<>>
                 /\ UNCHANGED <<state, target_process, registers, breakpoint_sites,
                                logging_thread, NEXT_ID, debugging, os, mem, rip,
                                workers, next_pid, session>>
            ELSE \A io \in IoOutcomes :
                   \E r \in {Debugger_next(World, debugging, history, history_file,
                                           history[Len(history)], io, last'.answers[1],
                                           last'.answers[2], last'.answers[3])} :
                       /\ Controller(r)
                       /\ debugging' = r.debugging
                       /\ last'.res = r.res /\ last'.ret = r.ret /\ last'.sys = r.w.sys
                       /\ r.history = history /\ r.fs = history_file]_vars

\* an empty line replayed a command that reached the kernel
C23_Witness ==
    /\ last.cmd = "next" /\ last.line = <<>>
    /\ Len(history) = 2
    /\ Did(last.steps, "dispatch_command")
    /\ last.sys # <<>>

\* C24: a line that does not parse makes Debugger::next return an error and
\* leaves the history, in memory and on disk, and the controller and the
\* kernel exactly as they were.
C24_ParseFailureHasNoEffect ==
    [][(last'.cmd = "next" /\ last'.line # <<>> /\ last'.parsed.res = "Err") =>
         /\ last'.res = "Err"
         /\ history' = history
         /\ history_file' = history_file
         /\ UNCHANGED <<state, target_process, registers, breakpoint_sites,
                        logging_thread, NEXT_ID, debugging, os, mem, rip,
                        workers, next_pid, session>>]_vars

\* C25: a non-empty line that parses is the last entry of the history when
\* next returns, whatever the result; when the command was dispatched, the
\* add came first, and an entry it appended is on disk with its LF -- also
\* when the dispatch returned an error.
C25_RecordedBeforeExecuted ==
    [][(last'.cmd = "next" /\ last'.line # <<>> /\ last'.parsed.res = "Ok") =>
         /\ last_command(history') = Some(last'.line)
         /\ Did(last'.steps, "dispatch_command") =>
               /\ last'.steps = <<"add", "try_from", "dispatch_command">>
               /\ history' # history =>
                     FileBytes(history_file') =
                        FileBytes(history_file) \o last'.line \o <<LF>>]_vars

\* a recorded command whose execution failed
C25_Witness ==
    /\ last.cmd = "next" /\ last.line = CONT
    /\ Did(last.steps, "dispatch_command")
    /\ last.res = "Err"
    /\ history = <<CONT>>
    /\ FileBytes(history_file) = CONT \o <<LF>>

\* C26 as stated: an error returned by Debugger::next leaves the main loop
\* running with the error recorded for display, and the loop is left only
\* when next returned Exit or a key press returned EventResult::Quit.
C26_OnlyExitOrQuitEndsLoop ==
    [][/\ (last'.cmd = "next" /\ last'.res = "Err") =>
             /\ session' = "open"
             /\ tui'.last_command_response = Some("error")
       /\ (session = "open" /\ session' # "open") =>
             \/ last'.cmd = "next" /\ last'.res = "Ok" /\ last'.ret = "Exit"
             \/ last'.cmd = "main" /\ last'.result = "Quit"]_vars

\* C26, amended: an error returned by Debugger::next leaves the main loop
\* running with the error recorded for display, and the loop is left only
\* when next returned Exit, a key press returned EventResult::Quit, or
\* tui.render failed.
C26_LoopEndsByExitQuitOrRenderError ==
    [][/\ (last'.cmd = "next" /\ last'.res = "Err") =>
             /\ session' = "open"
             /\ tui'.last_command_response = Some("error")
       /\ (session = "open" /\ session' # "open") =>
             \/ last'.cmd = "next" /\ last'.res = "Ok" /\ last'.ret = "Exit"
             \/ last'.cmd = "main" /\ last'.result = "Quit"
             \/ last'.cmd = "main" /\ last'.event = "render" /\ last'.result = "Err"]_vars

\* the loop goes on after a command that ran and failed, its error on display
C26_Witness ==
    /\ session = "open"
    /\ last.cmd = "next" /\ last.res = "Err"
    /\ Did(last.steps, "dispatch_command")
    /\ tui.last_command_response = Some("error")

\* C27: reading a register of the catalog from a snapshot gives a
\* RegisterValue whose variant is the format the catalog declares for it.
C27_ReadHasDeclaredFormat ==
    [][(last'.cmd = "get_value" /\ last'.arg \in Catalog) =>
          last'.value.variant = format(last'.arg)]_vars

IsUint(variant) == variant \in {"Uint8", "Uint16", "Uint32", "Uint64"}

\* a value of another kind than the register holds: not the declared variant,
\* and not an unsigned integer for an unsigned integer register
Incompatible(variant, declared) ==
    variant # declared /\ ~(IsUint(variant) /\ IsUint(declared))

\* C28: writing a register with a value whose variant is incompatible with
\* the register's declared format returns a BadConversion error and changes
\* neither the snapshot nor the registers of the tracee.
C28_BadConversionOnWrite ==
    [][(/\ last'.cmd = "set_value"
        /\ last'.arg \in Catalog
        /\ Incompatible(last'.value.variant, format(last'.arg))) =>
          /\ last'.res = "BadConversion"
          /\ registers' = registers
          /\ ghost'.tracee = ghost.tracee]_vars

\* C29: once a value has been sent on the worker's shutdown channel, or the
\* sender has been dropped, the worker eventually returns.
C29_ShutdownEndsWorker == reader.signalled ~> (reader.pc = "returned")

\* C30: destroy from Running eventually returns: once the tracee is killed
\* and reaped and destroy waits in handle.join(), the worker returns and the
\* join completes.
C30_DestroyReturns == (reader.main = "join") ~> (reader.main = "destroyed")

\* the calls destroy makes on the tracee, in the order of the source
DestroySteps == <<"SIGSTOP", "waitpid", "detach", "SIGCONT", "SIGKILL", "waitpid">>

\* C31: destroy from Running issues SIGSTOP, wait, detach, SIGCONT, SIGKILL,
\* wait, in this order and each on the tracee, and then joins the worker; a
\* step that fails is the last one issued: destroy returns its error and the
\* worker is not joined.
C31_DestroyStepsInOrder ==
    [][(last'.cmd = "destroy" /\ state = "Running")
       => LET sys == last'.sys
              n == Len(sys)
          IN  /\ n \in 1..Len(DestroySteps)
              /\ \A i \in 1..n : /\ sys[i].call = DestroySteps[i]
                                 /\ sys[i].pid = PidOf(target_process)
              /\ \A i \in 1..(n - 1) : sys[i].ok
              /\ (last'.res = "Ok") <=> (n = Len(DestroySteps) /\ sys[n].ok)
              /\ last'.res = "Ok"
                    => /\ logging_thread' = None
                       /\ workers' = workers \ {Unwrap(logging_thread)}
              /\ last'.res # "Ok"
                    => /\ last'.res = "Err"
                       /\ UNCHANGED <<logging_thread, workers>>]_vars

C31_Witness ==
    /\ last.cmd = "destroy" /\ last.res = "Ok"
    /\ Len(last.sys) = Len(DestroySteps)
    /\ state = "Terminated" /\ logging_thread = None /\ workers = {}

\* C32: in the reader worker a chunk that was read is sent and the loop
\* continues, whether or not the send succeeds (after main has returned the
\* receiver is gone and the send fails); an end of file ends the worker; and
\* a read error other than WouldBlock ends the worker.
C32_ReadErrorEndsWorker ==
    [][(last'.cmd = "event")
       => /\ last'.res = "Ok(n)" => reader'.pc = "poll"
          /\ last'.res = "Ok(0)" => reader'.pc = "returned"
          /\ last'.res = "Err" => reader'.pc = "returned"]_vars

\* C33: when execvp fails in the forked child, the child exits with a
\* non-zero status without running the command loop, the wait inside the
\* parent's attach returns Exited, and the controller state becomes Exited.
C33_ExecFailureIsObserved ==
    [][(last'.cmd = "launch" /\ last'.fork_ok /\ ~last'.exec_ok)
       => /\ last'.child.fate = "exited"
          /\ last'.child.code # 0
          /\ ~last'.child.command_loop
          /\ last'.status.kind = "Exited"
          /\ state' = "Exited"
          /\ os'[last'.status.pid] = "reaped"]_vars

C33_Witness ==
    /\ last.cmd = "launch" /\ last.fork_ok /\ ~last.exec_ok
    /\ last.child.fate = "exited" /\ state = "Exited"
    /\ IsSome(target_process) /\ os[PidOf(target_process)] = "reaped"

\* C35: between commands the controller state is never Running: after every
\* Debugger.next that returned, the state is Unknown, Stopped, Exited or
\* Terminated, run and continue having waited for the stop or the exit.
C35_NeverRunningBetweenCommands ==
    /\ state \in {"Unknown", "Stopped", "Exited", "Terminated"}
    /\ (last.cmd \in {"Run", "Continue"} /\ last.res = "Ok")
          => /\ Issued(last.sys, "waitpid")
             /\ os[TraceePid] \in {"stopped", "reaped"}

C35_Witness ==
    /\ last.cmd = "Continue" /\ last.res = "Ok"
    /\ Issued(last.sys, "cont") /\ Issued(last.sys, "waitpid")
    /\ state = "Stopped" /\ os[TraceePid] = "stopped"

\* C36: every byte saved in the inferior's active-site map is the byte the
\* tracee's image held at the site's address before the debugger patched it,
\* never the debugger's own int3.
C36_SavedByteIsOriginal ==
    \A id \in DOMAIN SitesOf(target_process) :
        /\ SitesOf(target_process)[id] # INTERRUPT_INSTRUCTION
        /\ HasRecord(breakpoint_sites, id)
              => SitesOf(target_process)[id] = OrigMem[AddressOf(breakpoint_sites, id)]

\* C37: `run` handled while the inferior launched earlier is still alive does
\* not lose track of it: afterwards either target_process still names that
\* process, or the process is dead and reaped and its reader worker has ended.
C37_RunKeepsTrackOfLiveTracee ==
    [][(last'.cmd = "Run" /\ IsSome(target_process) /\ Alive(World, TraceePid))
       => \/ PidOf(target_process') = TraceePid
          \/ /\ os'[TraceePid] \in {"none", "reaped"}
             /\ TraceePid \notin workers']_vars

\* C38: no sequence of commands makes expect_pid panic: a controller state of
\* Stopped or Running implies that target_process is Some, and no call of
\* Debugger.next panics.
C38_ExpectPidNeverPanics ==
    /\ state \in {"Stopped", "Running"} => IsSome(target_process)
    /\ session # "panicked"
    /\ last.res # "Panic"

C38_Witness ==
    /\ last.cmd = "Continue" /\ last.res = "Ok"
    /\ Issued(last.sys, "cont") /\ Issued(last.sys, "waitpid")
    /\ state = "Exited" /\ IsSome(target_process) /\ session = "open"

\* C40: add is atomic on failure: an add that returns an error leaves the
\* in-memory history unchanged, and the same command added again right after
\* with working I/O is appended to the file.
C40_AddIsAtomicOnFailure ==
    [][(last'.cmd = "add")
       => /\ last'.res = "Err" => history' = history
          /\ (last.cmd = "add" /\ last.res = "Err" /\ last'.arg = last.arg
                /\ last'.res = "Ok" /\ last'.io = "ok")
               => FileBytes(history_file') =
                     FileBytes(history_file) \o last'.arg \o <<LF>>]_vars

\* the non-empty lines of a text split at its newlines
NonEmptyLines(text) == SelectSeq(lines(text, 1, <<>>), LAMBDA l : l # <<>>)

Min(a, b) == IF a <= b THEN a ELSE b

\* C34: the stored output lines are the non-empty lines of the concatenation
\* of all chunks received since the last launch (a line that arrives in two
\* chunks is one stored line), and last_n_log_lines(n) is the final
\* min(n, count) of them, in order.
C34_LinesOfConcatenatedChunks ==
    /\ inferior_output = NonEmptyLines(ghost.received)
    /\ \A n \in 0..(Len(inferior_output) + 1) :
          LET m == Min(n, Len(inferior_output))
          IN  last_n_log_lines(inferior_output, n) =
                 [i \in 1..m |-> inferior_output[Len(inferior_output) - m + i]]

\* C39: after a re-launch the output buffer holds output of the newly
\* launched inferior only: every stored line comes from the inferior the
\* controller holds.
C39_BufferIsOfCurrentInferior ==
    \A i \in 1..Len(ghost.origin) : ghost.origin[i] = PidOf(target_process)

====
